---- MODULE Spec2Model ----
(***************************************************************************)
(* Task orchestration of the two forecasting stages.                       *)
(*   independent stage  : src/src/independent-forecast.js                  *)
(*   deliberative stage : src/unnamed/part_002 (deliberative-forecast.js)  *)
(* Both files hold the same scheduler (processQuestion / main); the model  *)
(* has one set of actions, parametrised by the variable stage.             *)
(***************************************************************************)
EXTENDS Integers, Sequences, FiniteSets, TLC

(***************************************************************************)
(* Bounds of the model.  BATCH_SIZE and MAX_TOTAL_FAILURES are the         *)
(* program's constants (20 and 5 in the source) scaled down so that a      *)
(* corpus of NumQuestions questions spans several batches and can trip     *)
(* the circuit breaker.  MaxOpen bounds the number of artifacts missing    *)
(* from the store when the first run starts.                               *)
(***************************************************************************)
NumQuestions == 3
BATCH_SIZE == 2
MAX_TOTAL_FAILURES == 2
MaxOpen == 2

\* The composition functions are also applied on their own to the question
\* ids 105..MaxQuestionId and the corpus indices 0..MaxQuestionIndex.
MaxQuestionId == 108
MaxQuestionIndex == 3

\* toCSV is applied to rows whose free-text value has at most MaxLen
\* characters.
MaxLen == 2

(***************************************************************************)
(* Program constants.                                                      *)
(***************************************************************************)
MAX_RETRIES_PER_QUESTION == 3
RETRY_DELAY_MS == 60000
MODELS == <<"pro", "sonnet", "gpt5">>
CONDITIONS ==
    <<"diverse_full", "diverse_info", "homo_full", "diverse_none", "homo_none", "homo_info">>
Stages == {"independent", "deliberative"}

\* instance = null (no instance number); JS treats it as falsy
NoInstance == 0

(***************************************************************************)
(* Sequence helpers (Array.prototype.filter / some / map / push).          *)
(***************************************************************************)
Range(s) == {s[i] : i \in DOMAIN s}

\* String(n) for the small integers that appear in identifiers
ToStr(n) ==
    CASE n = 1 -> "1"
      [] n = 2 -> "2"
      [] n = 3 -> "3"
      [] OTHER -> "0"

(***************************************************************************)
(* The question corpus: data/processed/questions.json, a list of questions *)
(* with pairwise distinct ids.  questions[k] is the id of the question at  *)
(* 0-based index k-1.                                                      *)
(***************************************************************************)
questions == [k \in 1..NumQuestions |-> 105 + k]

(***************************************************************************)
(* SEEDED RANDOMIZATION                                                    *)
(* seededRandom(seed) = frac(sin(seed * 9999) * 10000), tabulated in       *)
(* millionths for the seeds the corpus uses (IEEE-754 double values).      *)
(***************************************************************************)
seededRandom(seed) ==
    CASE seed = 100 -> 330895
      [] seed = 101 -> 184889
      [] seed = 102 -> 63452
      [] seed = 103 -> 529879
      [] seed = 104 -> 796494
      [] seed = 105 -> 952842
      [] seed = 106 -> 716464
      [] seed = 107 -> 919779
      [] seed = 108 -> 976744
      [] seed = 109 -> 149515
      [] seed = 110 -> 533549
      [] seed = 111 -> 256020
      [] seed = 112 -> 118200
      [] seed = 113 -> 938775
      [] seed = 114 -> 248257
      [] seed = 115 -> 504272

\* mutant: the element is copied, not exchanged (result[m] = result[i])
SwapOverwrite(s, a, b) == [s EXCEPT ![a] = s[b]]

Swap(s, a, b) == [s EXCEPT ![a] = s[b], ![b] = s[a]]

\* one iteration of the while (m) loop: i = floor(seededRandom(seed + m) * m--),
\* then result[m] <-> result[i] with m already decremented (0-based indices);
\* random[m] is the value of seededRandom(seed + m), in millionths
RECURSIVE ShuffleLoop(_, _, _)
ShuffleLoop(result, m, random) ==
    IF m = 0 THEN result
    ELSE LET i == (random[m] * m) \div 1000000
         IN  ShuffleLoop(Swap(result, m, i + 1), m - 1, random)

\* the values seededRandom returns during seededShuffle(array, seed)
RandomOf(array, seed) == [m \in 1..Len(array) |-> seededRandom(seed + m)]

seededShuffle(array, seed) == ShuffleLoop(array, Len(array), RandomOf(array, seed))

(***************************************************************************)
(* FORECAST REQUIREMENTS (independent stage)                               *)
(***************************************************************************)
Req(model, infoLabel, instance) ==
    [model |-> model, infoLabel |-> infoLabel, instance |-> instance]

\* key = `${model}-${infoLabel}-${instance || ''}`
ReqKey(r) == <<r.model, r.infoLabel, IF r.instance # NoInstance THEN ToStr(r.instance) ELSE "">>

\* addForecast applied to a list of candidates in order: push unless seen
RECURSIVE addForecasts(_, _)
addForecasts(required, cands) ==
    IF cands = <<>> THEN required
    ELSE LET c == Head(cands)
             seen == {ReqKey(required[i]) : i \in DOMAIN required}
         IN  addForecasts(IF ReqKey(c) \in seen THEN required ELSE Append(required, c),
                          Tail(cands))

\* the JS value undefined, as template literals print it
Undefined == "undefined"

\* array[i] for a 1-based i: undefined past the end of the array
At(array, i) == IF i \in DOMAIN array THEN array[i] ELSE Undefined

\* getRequiredForecasts, reading the module's MODELS array
RequiredForecastsOn(models_array, questionId, qIndex) ==
    LET infoLabels == seededShuffle(<<"info1", "info2", "info3">>, questionId)
        models == seededShuffle(models_array, questionId + 1)
        homoModel == At(models_array, (qIndex % 3) + 1)
        homoInfoLabels == <<"info1", "info2", "info3">>
        diverse_full == [i \in DOMAIN models_array |-> Req(models_array[i], "full", NoInstance)]
        diverse_info == [i \in 1..3 |-> Req(At(models, i), infoLabels[i], NoInstance)]
        homo_full == [i \in 1..3 |-> Req(homoModel, "full", i)]
        sense_check == [i \in DOMAIN models_array |-> Req(models_array[i], "none", NoInstance)]
        homo_none == [i \in 1..3 |-> Req(homoModel, "none", i)]
        homo_info == [i \in 1..3 |-> Req(homoModel, homoInfoLabels[i], i)]
    IN  addForecasts(<<>>, diverse_full \o diverse_info \o homo_full
                           \o sense_check \o homo_none \o homo_info)

getRequiredForecasts(questionId, qIndex) == RequiredForecastsOn(MODELS, questionId, qIndex)

\* mutant: the identifier leaves out the instance suffix
IndependentForecastIdNoSuffix(questionId, model, infoLabel, instance) ==
    <<questionId, model, infoLabel>>

\* forecastId = `${question.id}-${req.model}-${req.infoLabel}${instanceSuffix}`
IndependentForecastId(questionId, model, infoLabel, instance) ==
    <<questionId, model, infoLabel>>
        \o (IF instance # NoInstance THEN <<ToStr(instance)>> ELSE <<>>)

(***************************************************************************)
(* GROUP COMPOSITION (deliberative stage)                                  *)
(***************************************************************************)
\* throw new Error(message): the function returns no array; the Error is
\* kept as a one-element sequence so that it compares with an array
Throw(message, value) == <<[error |-> message, value |-> value]>>

Threw(result) == Len(result) = 1 /\ "error" \in DOMAIN result[1]

\* mutant: an unknown condition falls through to an empty group
DefaultCaseEmpty(condition) == <<>>

\* default: throw new Error(`Unknown condition: ${condition}`)
DefaultCase(condition) == Throw("Unknown condition", condition)

\* the switch of getGroupComposition, reading the module's MODELS array
GroupCompositionOn(models_array, condition, questionId, questionIndex) ==
    LET infoLabels == seededShuffle(<<"info1", "info2", "info3">>, questionId)
        models == seededShuffle(models_array, questionId + 1)
        homoModel == models_array[(questionIndex % 3) + 1]
    IN  CASE condition = "diverse_full" ->
                <<Req("pro", "full", NoInstance), Req("sonnet", "full", NoInstance),
                  Req("gpt5", "full", NoInstance)>>
          [] condition = "diverse_info" ->
                [i \in 1..3 |-> Req(models[i], infoLabels[i], NoInstance)]
          [] condition = "homo_full" ->
                [i \in 1..3 |-> Req(homoModel, "full", i)]
          [] condition = "diverse_none" ->
                <<Req("pro", "none", NoInstance), Req("sonnet", "none", NoInstance),
                  Req("gpt5", "none", NoInstance)>>
          [] condition = "homo_none" ->
                [i \in 1..3 |-> Req(homoModel, "none", i)]
          [] condition = "homo_info" ->
                [i \in 1..3 |-> Req(homoModel, <<"info1", "info2", "info3">>[i], i)]
          [] OTHER -> DefaultCase(condition)

getGroupComposition(condition, questionId, questionIndex) ==
    GroupCompositionOn(MODELS, condition, questionId, questionIndex)

\* mutant: the identifier leaves out the position
DeliberativeForecastIdNoPosition(questionId, condition, model, position) ==
    <<questionId, condition, model>>

\* forecastId = `${question.id}-${condition}-${groupComposition[position - 1].model}-${position}`
DeliberativeForecastId(questionId, condition, model, position) ==
    <<questionId, condition, model, ToStr(position)>>


(***************************************************************************)
(* Artifact stores: data/independent-forecasts and                         *)
(* data/deliberative-forecasts, as the sets of file keys present.          *)
(***************************************************************************)
VARIABLES
    stage,       \* which of the two scripts is run
    indFiles,    \* keys present in data/independent-forecasts
    delFiles,    \* keys present in data/deliberative-forecasts
    main,        \* main(): loop position, counters, questionsWithFailures
    pq,          \* pq[k]: the activation of processQuestion for questions[k]
    exitStatus,  \* exit status of the process, Running while it runs
    calls,       \* Forecasting Service calls of this run, per task identifier
    failures,    \* failed Forecasting Service calls of this run, per task identifier
    writes,      \* writeFileSync calls per key, over all runs
    startFiles,  \* the stage's store as it was when this run started
    redundant,   \* identifiers sent to the service while their artifact was in the store
    overwrites,  \* keys written while they were already in the store
    gen,         \* the composition functions called on their own: the module's
                 \* MODELS array, the last call and an earlier call
    information, \* the supporting text of one task, as each stage computes it
    analysis,    \* build-analysis-dataset.js: the files it reads and what it builds
    contents,    \* the parsed contents of the files of the two stores, where a
                 \* property reads them; elsewhere a file stands for its key
    fetch        \* agentUtils.js: the activation of a paginated fetch function

vars == <<stage, indFiles, delFiles, main, pq, exitStatus, calls, failures, writes,
          startFiles, redundant, overwrites, gen, information, analysis, contents, fetch>>

Running == -1
Interrupted == 130

\* mutant: the existence check never finds the file (a wrong path)
existsSyncNever(forecastId, files) == FALSE

\* fs.existsSync(outputFile)
existsSync(forecastId, files) == forecastId \in files

OutFiles == IF stage = "independent" THEN indFiles ELSE delFiles

(***************************************************************************)
(* Task lists.  A task carries what the retry loop needs: its identifier,  *)
(* and for a deliberative task the condition, position, group and the      *)
(* independent forecasts loaded when the task was built.                   *)
(***************************************************************************)
IndependentTask(questionId, req) ==
    [forecastId |-> IndependentForecastId(questionId, req.model, req.infoLabel, req.instance),
     condition |-> "", position |-> 0, agent |-> req, independentForecasts |-> <<>>]

\* mutant: the index of the question inside its batch
qIndexInBatch(batchStart, i) == i

\* batch.map((question, i) => { const qIndex = batchStart + i ... })
qIndexAt(batchStart, i) == batchStart + i

\* the qIndex main passes for the question at (1-based) corpus position k:
\* the question is element i of the batch that starts at batchStart
qIndexOf(k) ==
    LET batchStart == ((k - 1) \div BATCH_SIZE) * BATCH_SIZE
    IN  qIndexAt(batchStart, (k - 1) - batchStart)

\* main: requiredForecasts = getRequiredForecasts(question.id, qIndex), per question
requiredForecasts ==
    [k \in 1..NumQuestions |-> getRequiredForecasts(questions[k], qIndexOf(k))]

IndependentTasks(k) ==
    [i \in DOMAIN requiredForecasts[k] |-> IndependentTask(questions[k], requiredForecasts[k][i])]

\* the tasks of question k when the script runs with another MODELS array
IndependentTasksOn(models_array, k) ==
    LET required == RequiredForecastsOn(models_array, questions[k], qIndexOf(k))
    IN  [i \in DOMAIN required |-> IndependentTask(questions[k], required[i])]

\* null
Null == <<>>

\* mutant: the filename leaves out the instance suffix
IndependentFilenameNoSuffix(questionId, model, infoLabel, instance) ==
    <<questionId, model, infoLabel>>

\* filename = `data/independent-forecasts/${questionId}-${model}-${infoLabel}${suffix}.json`
IndependentFilename(questionId, model, infoLabel, instance) ==
    <<questionId, model, infoLabel>>
        \o (IF instance # NoInstance THEN <<ToStr(instance)>> ELSE <<>>)

\* the parsed file is represented by its forecastId field, which the
\* independent stage sets to the name of the file
loadIndependentForecast(questionId, model, infoLabel, instance, files) ==
    LET filename == IndependentFilename(questionId, model, infoLabel, instance)
    IN  IF ~existsSync(filename, files) THEN Null ELSE filename

\* independentForecasts[position - 1]
ownForecast(independentForecasts, position) == independentForecasts[position]

\* mutant: the filter compares the 0-based index with the 1-based position
otherForecastsOffByOne(independentForecasts, position) ==
    LET kept == SelectSeq(<<1, 2, 3>>, LAMBDA j : j - 1 # position)
    IN  [n \in 1..Len(kept) |-> independentForecasts[kept[n]]]

\* independentForecasts.filter((_, i) => i !== position - 1)
otherForecasts(independentForecasts, position) ==
    LET kept == SelectSeq(<<1, 2, 3>>, LAMBDA j : j # position)
    IN  [n \in 1..Len(kept) |-> independentForecasts[kept[n]]]

\* the argument of deliberativeForecastingAgent({...}) for a task; a
\* forecast is represented by its forecastId field
AgentRequest(task) ==
    [model |-> task.agent.model,
     infoLabel |-> task.agent.infoLabel,
     condition |-> task.condition,
     position |-> task.position,
     independentForecast |-> ownForecast(task.independentForecasts, task.position),
     otherForecasts |-> otherForecasts(task.independentForecasts, task.position)]

createTask(questionId, condition, groupComposition, independentForecasts, position) ==
    [forecastId |-> DeliberativeForecastId(questionId, condition,
                                           groupComposition[position].model, position),
     condition |-> condition, position |-> position,
     agent |-> groupComposition[position],
     independentForecasts |-> independentForecasts]

\* processQuestion: groupComposition = getGroupComposition(condition, question.id, qIndex),
\* per question and condition
groupCompositions ==
    [k \in 1..NumQuestions |->
        [c \in DOMAIN CONDITIONS |-> getGroupComposition(CONDITIONS[c], questions[k], qIndexOf(k))]]

LoadGroup(k, c, files) ==
    LET groupComposition == groupCompositions[k][c]
    IN  [i \in DOMAIN groupComposition |->
            loadIndependentForecast(questions[k], groupComposition[i].model,
                                    groupComposition[i].infoLabel,
                                    groupComposition[i].instance, files)]

\* mutant: every for some, a group is skipped only when all 3 results are missing
GroupIncompleteEvery(independentForecasts) ==
    \A i \in DOMAIN independentForecasts : independentForecasts[i] = Null

\* independentForecasts.some(f => f === null)
GroupIncomplete(independentForecasts) ==
    \E i \in DOMAIN independentForecasts : independentForecasts[i] = Null

\* mutant: a skipped group counts as one task
SkipGroupAsOne(skipped) == skipped + 1

\* skipped += 3: the 3 forecasts of the group
SkipGroup(skipped) == skipped + 3

\* the for (const condition of CONDITIONS) loop of processQuestion, from
\* condition number c on: [allTasks, skipped]
RECURSIVE CollectTasks(_, _, _, _)
CollectTasks(k, c, files, acc) ==
    IF c > Len(CONDITIONS) THEN acc
    ELSE LET condition == CONDITIONS[c]
             groupComposition == groupCompositions[k][c]
             independentForecasts == LoadGroup(k, c, files)
         IN  IF GroupIncomplete(independentForecasts)
             THEN CollectTasks(k, c + 1, files,
                               [acc EXCEPT !.skipped = SkipGroup(@)])
             ELSE CollectTasks(k, c + 1, files,
                               [acc EXCEPT !.allTasks = @ \o
                                   [position \in 1..3 |->
                                       createTask(questions[k], condition, groupComposition,
                                                  independentForecasts, position)]])

DeliberativeTasks(k, files) == CollectTasks(k, 1, files, [allTasks |-> <<>>, skipped |-> 0])


(***************************************************************************)
(* processQuestion: one activation per question of the current batch.      *)
(*   pc = "idle"      not started in this run                              *)
(*   pc = "awaiting"  await Promise.all(promises) of a dispatch round      *)
(*   pc = "sleeping"  await sleep(RETRY_DELAY_MS) before a retry round     *)
(*   pc = "returned"  the promise of processQuestion has resolved          *)
(* round[i] is the state of the promise of pending[i] in the current       *)
(* round: "inflight" while the service call is awaited, else the status    *)
(* of the result it resolved to.  rounds counts the dispatch rounds of the *)
(* activation and delays lists the durations it has slept for.             *)
(***************************************************************************)
IdlePQ ==
    [pc |-> "idle", pending |-> <<>>, round |-> <<>>, allResults |-> <<>>,
     retryCount |-> 0, persistentFailures |-> 0, skipped |-> 0,
     rounds |-> 0, delays |-> <<>>]

\* mutant: exponential backoff, the delay doubles with every retry
sleepDoubling(p) ==
    [p EXCEPT !.pc = "sleeping",
              !.delays = Append(@, RETRY_DELAY_MS * 2 ^ (p.retryCount - 1))]

\* mutant: the promise of sleep is never resolved (resolve is not passed to
\* setTimeout), so the activation waits for ever
sleepNeverResolves(p) ==
    [p EXCEPT !.pc = "waiting", !.delays = Append(@, RETRY_DELAY_MS)]

\* if (retryCount > 0) await sleep(RETRY_DELAY_MS), at the head of the loop body
sleep(p) ==
    [p EXCEPT !.pc = "sleeping", !.delays = Append(@, RETRY_DELAY_MS)]

Result(status, forecastId) == [status |-> status, forecastId |-> forecastId]

\* mutant: no cache check, every task goes to the service
CacheCheckNone(forecastId, files) == "inflight"

\* generateSingle(Deliberative)Forecast up to its first await: the cache
\* check; a miss leaves the service call in flight
CacheCheck(forecastId, files) ==
    IF existsSync(forecastId, files) THEN "cached" ELSE "inflight"

\* what the awaited call of the agent can throw: the failures of the
\* Forecasting Service (generateObject)
ErrorKinds == {"timeout", "malformed_response", "rate_limit", "validation"}

\* mutant: a rate limit is rethrown instead of being turned into a result
CaughtUnlessRateLimit(kind) == IF kind = "rate_limit" THEN "rejected" ELSE "error"

\* catch (error) { return { status: 'error', forecastId, error: error.message } }:
\* the status of the result, whatever was thrown
Caught(kind) == "error"

\* !x for the strings the agents validate
Missing(x) == x = Undefined \/ x = ""

\* the agent throws before it calls the service:
\*   independentForecastingAgent: if (!infoLabel || !model) throw
\*   deliberativeForecastingAgent: if (!independentForecast || !otherForecasts ||
\*     otherForecasts.length !== 2) throw; if (!model || !condition || !position) throw
AgentThrows(task) ==
    IF stage = "independent"
    THEN Missing(task.agent.infoLabel) \/ Missing(task.agent.model)
    ELSE LET request == AgentRequest(task)
         IN  \/ request.independentForecast = Null
             \/ Len(request.otherForecasts) # 2
             \/ Missing(request.model)
             \/ Missing(request.condition)
             \/ request.position = 0

\* generateSingle(Deliberative)Forecast up to its first suspension: cached,
\* or the agent is called; an agent that throws at once ends in the catch
GenerateStart(task, files) ==
    LET checked == CacheCheck(task.forecastId, files)
    IN  IF checked = "inflight" /\ AgentThrows(task) THEN Caught("configuration")
        ELSE checked

\* pending.map(task => generateSingle...(task)): every promise of the round
DispatchRound(pending, files) ==
    [i \in DOMAIN pending |-> GenerateStart(pending[i], files)]

\* identifiers sent to the Forecasting Service in a round, in order
RECURSIVE DispatchedIds(_, _)
DispatchedIds(pending, round) ==
    IF pending = <<>> THEN <<>>
    ELSE (IF Head(round) = "inflight" THEN <<Head(pending).forecastId>> ELSE <<>>)
         \o DispatchedIds(Tail(pending), Tail(round))

RECURSIVE CountAll(_, _)
CountAll(count, ids) ==
    IF ids = <<>> THEN count
    ELSE LET id == Head(ids)
         IN  CountAll(IF id \in DOMAIN count
                      THEN [count EXCEPT ![id] = @ + 1]
                      ELSE count @@ (id :> 1),
                      Tail(ids))

\* the bookkeeping of a dispatch round in the observation variables
Dispatched(rt, pending, round, files) ==
    [rt EXCEPT !.calls = CountAll(@, DispatchedIds(pending, round)),
               !.redundant = @ \cup (Range(DispatchedIds(pending, round)) \cap files)]

\* mutant: the retry bound off by one (<= for <)
LoopContinuesOneMore(pending, retryCount) ==
    Len(pending) > 0 /\ retryCount <= MAX_RETRIES_PER_QUESTION

\* mutant: the last round is never dispatched
LoopContinuesOneFewer(pending, retryCount) ==
    Len(pending) > 0 /\ retryCount < MAX_RETRIES_PER_QUESTION - 1

\* while (pending.length > 0 && retryCount < MAX_RETRIES_PER_QUESTION)
LoopContinues(pending, retryCount) ==
    Len(pending) > 0 /\ retryCount < MAX_RETRIES_PER_QUESTION

\* mutant: the skipped tasks are returned as persistent failures too
ReturnPQCountsSkipped(p) ==
    [p EXCEPT !.pc = "returned",
              !.round = <<>>,
              !.persistentFailures = Len(p.pending) + p.skipped,
              !.allResults = @ \o [i \in DOMAIN p.pending |->
                                     Result("persistent_failure", p.pending[i].forecastId)]]

\* mutant: the tasks still pending after the loop are counted, not reported
ReturnPQNoReport(p) ==
    [p EXCEPT !.pc = "returned",
              !.round = <<>>,
              !.persistentFailures = Len(p.pending)]

\* the code after the while loop: persistent failures, return value
ReturnPQ(p) ==
    [p EXCEPT !.pc = "returned",
              !.round = <<>>,
              !.persistentFailures = Len(p.pending),
              !.allResults = @ \o [i \in DOMAIN p.pending |->
                                     Result("persistent_failure", p.pending[i].forecastId)]]

\* processQuestion from its call to its first await
StartPQ(built, files) ==
    LET p == [IdlePQ EXCEPT !.pending = built.allTasks, !.skipped = built.skipped]
    IN  IF stage = "deliberative" /\ Len(built.allTasks) = 0
        THEN [p EXCEPT !.pc = "returned"]
        ELSE IF LoopContinues(built.allTasks, 0)
             THEN [p EXCEPT !.pc = "awaiting", !.rounds = 1,
                            !.round = DispatchRound(built.allTasks, files)]
             ELSE ReturnPQ(p)

TasksOf(k) ==
    IF stage = "independent"
    THEN [allTasks |-> IF gen.models = MODELS THEN IndependentTasks(k)
                       ELSE IndependentTasksOn(gen.models, k),
          skipped |-> 0]
    ELSE DeliberativeTasks(k, indFiles)

(***************************************************************************)
(* main                                                                    *)
(***************************************************************************)
InitMain ==
    [pc |-> "start", batchStart |-> 0, totalCompleted |-> 0, totalCached |-> 0,
     totalSkipped |-> 0, totalPersistentFailures |-> 0, questionsWithFailures |-> <<>>]

\* questions.slice(batchStart, batchEnd), as 1-based corpus positions
Batch(batchStart) ==
    LET batchEnd == IF batchStart + BATCH_SIZE < NumQuestions
                    THEN batchStart + BATCH_SIZE ELSE NumQuestions
    IN  [i \in 1..(batchEnd - batchStart) |-> batchStart + i]

CountStatus(results, status) ==
    Len(SelectSeq(results, LAMBDA r : r.status = status))

\* mutant: the threshold compared with > for >=
BreakerTripsLate(questionsWithFailures) ==
    Len(questionsWithFailures) > MAX_TOTAL_FAILURES

\* questionsWithFailures.length >= MAX_TOTAL_FAILURES
BreakerTrips(questionsWithFailures) ==
    Len(questionsWithFailures) >= MAX_TOTAL_FAILURES

\* mutant: the tally gets one entry per persistently failed task
TallyQuestionPerTask(questionsWithFailures, questionId, persistentFailures) ==
    questionsWithFailures \o [i \in 1..persistentFailures |-> questionId]

\* if (persistentFailures > 0) questionsWithFailures.push(question.id)
TallyQuestion(questionsWithFailures, questionId, persistentFailures) ==
    IF persistentFailures > 0 THEN Append(questionsWithFailures, questionId)
    ELSE questionsWithFailures

\* for (const {...} of batchResults): the results of the batch in order;
\* process.exit(1) leaves the loop at once (pc = "exited")
RECURSIVE TallyLoop(_, _, _)
TallyLoop(m, batchResults, ks) ==
    IF ks = <<>> \/ m.pc = "exited" THEN m
    ELSE LET r == batchResults[Head(ks)]
             m1 == [m EXCEPT !.totalCompleted = @ + CountStatus(r.allResults, "success"),
                             !.totalCached = @ + CountStatus(r.allResults, "cached"),
                             !.totalSkipped = @ + r.skipped,
                             !.totalPersistentFailures = @ + r.persistentFailures]
             m2 == [m1 EXCEPT !.questionsWithFailures =
                                 TallyQuestion(@, questions[Head(ks)], r.persistentFailures)]
             m3 == IF r.persistentFailures > 0 /\ BreakerTrips(m2.questionsWithFailures)
                   THEN [m2 EXCEPT !.pc = "exited"]
                   ELSE m2
         IN  TallyLoop(m3, batchResults, Tail(ks))

\* mutant: the batch loop resumes when any question of the batch has
\* returned (Promise.race / Promise.any for Promise.all)
BatchAnyResolved(procs, batchStart) ==
    \E i \in DOMAIN Batch(batchStart) : procs[Batch(batchStart)[i]].pc = "returned"

\* await Promise.all(batchPromises) has resolved
BatchResolved(procs, batchStart) ==
    \A i \in DOMAIN Batch(batchStart) : procs[Batch(batchStart)[i]].pc = "returned"

\* the exit status when main returns after the last batch
FinalExitStatus(st, questionsWithFailures) ==
    IF st = "independent" /\ Len(questionsWithFailures) > 0 THEN 1 ELSE 0


\* mutant: a round with a failure rejects as a whole (no per-task catch):
\* the results of the tasks that succeeded in it are dropped
AfterRoundAbort(p) ==
    LET results == [i \in DOMAIN p.pending |-> Result(p.round[i], p.pending[i].forecastId)]
        succeeded == SelectSeq(results, LAMBDA r : r.status = "success" \/ r.status = "cached")
        failed == SelectSeq(results, LAMBDA r : r.status = "error")
        p1 == [p EXCEPT !.round = <<>>]
    IN  IF Len(failed) = 0
        THEN ReturnPQ([p1 EXCEPT !.allResults = @ \o succeeded, !.pending = <<>>])
        ELSE LET p2 == [p1 EXCEPT !.retryCount = @ + 1]
             IN  IF LoopContinues(p2.pending, p2.retryCount)
                 THEN sleep(p2)
                 ELSE ReturnPQ(p2)

\* mutant: every task of the round is kept for the next round
failedTasksAll(pending, failed) == pending

\* pendingTasks.filter(task => failed.some(f => f.forecastId === task.forecastId))
failedTasks(pending, failed) ==
    SelectSeq(pending, LAMBDA t : \E j \in DOMAIN failed : failed[j].forecastId = t.forecastId)

\* the body of the while loop after await Promise.all(promises)
AfterRound(p) ==
    LET results == [i \in DOMAIN p.pending |-> Result(p.round[i], p.pending[i].forecastId)]
        succeeded == SelectSeq(results, LAMBDA r : r.status = "success" \/ r.status = "cached")
        failed == SelectSeq(results, LAMBDA r : r.status = "error")
        p1 == [p EXCEPT !.allResults = @ \o succeeded, !.round = <<>>]
    IN  IF Len(failed) = 0
        THEN ReturnPQ([p1 EXCEPT !.pending = <<>>])
        ELSE LET p2 == [p1 EXCEPT
                          !.pending = failedTasks(p.pending, failed),
                          !.retryCount = @ + 1]
             IN  IF LoopContinues(p2.pending, p2.retryCount)
                 THEN sleep(p2)
                 ELSE ReturnPQ(p2)

\* every promise of the round has resolved: await Promise.all(promises) resumes
RoundResolved(p) == \A i \in DOMAIN p.round : p.round[i] # "inflight"

(***************************************************************************)
(* The process.  Node runs one callback at a time and then every           *)
(* continuation that has become runnable (the microtask queue) before it   *)
(* takes the next I/O or timer event.  rt = [main, pq, exitStatus, calls]  *)
(* is the memory of the process; RunToAwait runs the continuations that    *)
(* are runnable in rt until each one waits for a service call or a timer,  *)
(* or the process has exited.  Continuations of different questions touch  *)
(* disjoint state, so the order in which they are taken does not matter.   *)
(***************************************************************************)
QuestionIndices == 1..NumQuestions

\* batch.map(... processQuestion(question, qIndex ...)): every question of
\* the batch runs to its first await
DispatchBatch(rt, files) ==
    LET batch == Batch(rt.main.batchStart)
        RECURSIVE Started(_, _)
        Started(r, ks) ==
            IF ks = <<>> THEN r
            ELSE LET p == StartPQ(TasksOf(Head(ks)), files)
                 IN  Started(Dispatched([r EXCEPT !.pq[Head(ks)] = p],
                                        p.pending, p.round, files),
                             Tail(ks))
    IN  Started([rt EXCEPT !.main.pc = "await"], batch)

\* mutant: the circuit breaker exits with status 0
TallyBatchExitZero(rt) ==
    LET m == TallyLoop(rt.main, rt.pq, Batch(rt.main.batchStart))
    IN  IF m.pc = "exited"
        THEN [rt EXCEPT !.main = m, !.exitStatus = 0]
        ELSE [rt EXCEPT !.main = [m EXCEPT !.pc = "loop", !.batchStart = @ + BATCH_SIZE]]

\* the code of main after await Promise.all(batchPromises): the tally loop,
\* then the next iteration of the batch loop
TallyBatch(rt) ==
    LET m == TallyLoop(rt.main, rt.pq, Batch(rt.main.batchStart))
    IN  IF m.pc = "exited"
        THEN [rt EXCEPT !.main = m, !.exitStatus = 1]
        ELSE [rt EXCEPT !.main = [m EXCEPT !.pc = "loop", !.batchStart = @ + BATCH_SIZE]]

\* main returns after the last batch: summary, and the process ends
Finish(rt) ==
    [rt EXCEPT !.main.pc = "exited",
               !.exitStatus = FinalExitStatus(stage, rt.main.questionsWithFailures)]

RECURSIVE RunToAwait(_, _)
RunToAwait(rt, files) ==
    LET resumable == {k \in QuestionIndices :
                         rt.pq[k].pc = "awaiting" /\ RoundResolved(rt.pq[k])}
    IN  IF rt.exitStatus # Running THEN rt
        ELSE IF resumable # {}
        THEN LET k == CHOOSE x \in resumable : \A y \in resumable : x <= y
             IN  RunToAwait([rt EXCEPT !.pq[k] = AfterRound(@)], files)
        ELSE IF rt.main.pc = "await" /\ BatchResolved(rt.pq, rt.main.batchStart)
        THEN RunToAwait(TallyBatch(rt), files)
        ELSE IF rt.main.pc = "loop" /\ rt.main.batchStart < NumQuestions
        THEN RunToAwait(DispatchBatch(rt, files), files)
        ELSE IF rt.main.pc = "loop"
        THEN Finish(rt)
        ELSE rt

(***************************************************************************)
(* Initial stores.  When the first run starts the stage's store holds      *)
(* every artifact the stage can produce, or all of them except the open    *)
(* ones: the first OpenCount(k) tasks of question k (MaxOpen tasks of the  *)
(* first question, one task of the second and of the third, none of the    *)
(* questions after them).  Later runs (Rerun)                              *)
(* start from whatever the earlier runs left in the store.  For the        *)
(* deliberative stage the independent store is complete, or lacks one      *)
(* result (of the diverse_none group) or every result of the first         *)
(* question.                                                               *)
(***************************************************************************)
OpenCount(k) == IF k = 1 THEN MaxOpen ELSE IF k <= 3 THEN 1 ELSE 0

Ids(tasks) == {tasks[i].forecastId : i \in DOMAIN tasks}

Prefix(s, n) == SubSeq(s, 1, IF n < Len(s) THEN n ELSE Len(s))

AllIndependentIds == UNION {Ids(IndependentTasks(k)) : k \in QuestionIndices}

OpenIndependentIds ==
    UNION {Ids(Prefix(IndependentTasks(k), OpenCount(k))) : k \in QuestionIndices}

OpenDeliberativeIds ==
    UNION {Ids(Prefix(DeliberativeTasks(k, AllIndependentIds).allTasks, OpenCount(k)))
             : k \in QuestionIndices}

MissingChoices ==
    { {},
      {IndependentForecastId(questions[1], "pro", "none", NoInstance)},
      Ids(IndependentTasks(1)) }

\* no call of a composition function on its own yet
NoCall ==
    [fn |-> "none", condition |-> "", questionId |-> 0, questionIndex |-> 0, result |-> <<>>]

\* const MODELS = ['pro', 'sonnet', 'gpt5'] when the module is loaded
IdleGen == [models |-> MODELS, call |-> NoCall, prev |-> NoCall]

\* no text computed yet
NotComputed == <<>>

\* no task whose supporting text is computed
NoInformation ==
    [informationPackages |-> <<>>, infoLabel |-> "",
     independent |-> NotComputed, deliberative |-> NotComputed]

\* build-analysis-dataset.js has not run
NoAnalysis == [pc |-> "idle"]

\* no file contents tracked
NoContents == [independent |-> <<>>, deliberative |-> <<>>]

\* no fetch function called
NoFetch == [pc |-> "idle"]

Init ==
    /\ stage \in Stages
    /\ \/ /\ stage = "independent"
          /\ \E open \in {OpenIndependentIds, {}} : indFiles = AllIndependentIds \ open
          /\ delFiles = {}
       \/ /\ stage = "deliberative"
          /\ \E missing \in MissingChoices : indFiles = AllIndependentIds \ missing
          /\ \E open \in {OpenDeliberativeIds, {}} :
                delFiles = UNION {Ids(DeliberativeTasks(k, indFiles).allTasks)
                                    : k \in QuestionIndices} \ open
    /\ main = InitMain
    /\ pq = [k \in QuestionIndices |-> IdlePQ]
    /\ exitStatus = Running
    /\ calls = <<>>
    /\ failures = <<>>
    /\ writes = <<>>
    /\ startFiles = OutFiles
    /\ redundant = {}
    /\ overwrites = {}
    /\ gen = IdleGen
    /\ information = NoInformation
    /\ analysis = NoAnalysis
    /\ contents = NoContents
    /\ fetch = NoFetch

(***************************************************************************)
(* Actions: one per event the process handles.                             *)
(***************************************************************************)
Runtime ==
    [main |-> main, pq |-> pq, exitStatus |-> exitStatus, calls |-> calls,
     redundant |-> redundant]

Resume(rt, files) ==
    \E after \in {RunToAwait(rt, files)} :
        /\ main' = after.main
        /\ pq' = after.pq
        /\ exitStatus' = after.exitStatus
        /\ calls' = after.calls
        /\ redundant' = after.redundant

\* node <stage>-forecast.js: main() runs to its first await
Main ==
    /\ exitStatus = Running
    /\ main.pc = "start"
    /\ Resume([Runtime EXCEPT !.main.pc = "loop"], OutFiles)
    /\ UNCHANGED <<stage, indFiles, delFiles, failures, writes, startFiles, overwrites, gen,
                 information, analysis, contents, fetch>>

\* the Forecasting Service call of pending[i] of question k returns: the
\* artifact is written (fs.writeFileSync) and the promise resolves to success
ServiceSucceeds(k, i) ==
    /\ exitStatus = Running
    /\ pq[k].pc = "awaiting"
    /\ i \in DOMAIN pq[k].round
    /\ pq[k].round[i] = "inflight"
    /\ LET forecastId == pq[k].pending[i].forecastId
       IN  /\ indFiles' = IF stage = "independent" THEN indFiles \cup {forecastId} ELSE indFiles
           /\ delFiles' = IF stage = "deliberative" THEN delFiles \cup {forecastId} ELSE delFiles
           /\ writes' = CountAll(writes, <<forecastId>>)
           /\ overwrites' = overwrites \cup ({forecastId} \cap OutFiles)
           /\ Resume([Runtime EXCEPT !.pq[k].round[i] = "success"], OutFiles \cup {forecastId})
    /\ UNCHANGED <<stage, failures, startFiles, gen,
                 information, analysis, contents, fetch>>

\* the statuses a throwing call can end in, over everything it can throw
ThrownStatuses == {Caught(kind) : kind \in ErrorKinds}

\* the Forecasting Service call of pending[i] of question k throws an error
\* of some kind: catch (error)
ServiceFails(k, i) ==
    /\ exitStatus = Running
    /\ pq[k].pc = "awaiting"
    /\ i \in DOMAIN pq[k].round
    /\ pq[k].round[i] = "inflight"
    /\ failures' = CountAll(failures, <<pq[k].pending[i].forecastId>>)
    /\ \E status \in ThrownStatuses :
          Resume([Runtime EXCEPT !.pq[k].round[i] = status], OutFiles)
    /\ UNCHANGED <<stage, indFiles, delFiles, writes, startFiles, overwrites, gen,
                 information, analysis, contents, fetch>>

\* sleep(RETRY_DELAY_MS) of question k is over: the pending tasks are
\* dispatched again
RetryRound(k) ==
    /\ exitStatus = Running
    /\ pq[k].pc = "sleeping"
    /\ \E round \in {DispatchRound(pq[k].pending, OutFiles)} :
          Resume(Dispatched([Runtime EXCEPT !.pq[k].pc = "awaiting", !.pq[k].round = round,
                                            !.pq[k].rounds = @ + 1],
                            pq[k].pending, round, OutFiles),
                 OutFiles)
    /\ UNCHANGED <<stage, indFiles, delFiles, failures, writes, startFiles, overwrites, gen,
                 information, analysis, contents, fetch>>

\* the process is killed (crash or manual interruption): its memory and
\* its calls in flight are lost, the stores stay as they are
Interrupt ==
    /\ exitStatus = Running
    /\ main.pc = "await"
    /\ main' = [InitMain EXCEPT !.pc = "exited"]
    /\ pq' = [k \in QuestionIndices |-> IdlePQ]
    /\ exitStatus' = Interrupted
    /\ calls' = <<>>
    /\ failures' = <<>>
    /\ startFiles' = OutFiles
    /\ UNCHANGED <<stage, indFiles, delFiles, writes, redundant, overwrites, gen,
                 information, analysis, contents, fetch>>

\* the same stage is run again on the stores the earlier runs left
Rerun ==
    /\ exitStatus # Running
    /\ main' = InitMain
    /\ pq' = [k \in QuestionIndices |-> IdlePQ]
    /\ exitStatus' = Running
    /\ calls' = <<>>
    /\ failures' = <<>>
    /\ startFiles' = OutFiles
    /\ UNCHANGED <<stage, indFiles, delFiles, writes, redundant, overwrites, gen,
                 information, analysis, contents, fetch>>

Next ==
    \/ Main
    \/ \E k \in QuestionIndices : \E i \in 1..18 : ServiceSucceeds(k, i)
    \/ \E k \in QuestionIndices : \E i \in 1..18 : ServiceFails(k, i)
    \/ \E k \in QuestionIndices : RetryRound(k)
    \/ Interrupt
    \/ Rerun

Spec == Init /\ [][Next]_vars

(***************************************************************************)
(* The runs under the scheduling of Node: while the process runs and an    *)
(* event is outstanding (a Forecasting Service call that returns or        *)
(* throws, the timer of a sleep), the event loop handles one of them.      *)
(* Nothing is assumed of which event comes first, nor of a kill.  The      *)
(* specification follows one run of a stage from each store of Init to     *)
(* its end.                                                                *)
(***************************************************************************)
EventLoop ==
    \/ Main
    \/ \E k \in QuestionIndices : \E i \in 1..18 : ServiceSucceeds(k, i)
    \/ \E k \in QuestionIndices : \E i \in 1..18 : ServiceFails(k, i)
    \/ \E k \in QuestionIndices : RetryRound(k)

\* an event of the running process is outstanding: main has not started, a
\* timer of sleep is pending, or a service call is awaited.  These are the
\* states in which a step of EventLoop is possible (ENABLED <<EventLoop>>_vars).
EventOutstanding ==
    /\ exitStatus = Running
    /\ \/ main.pc = "start"
       \/ \E k \in QuestionIndices :
             \/ pq[k].pc = "sleeping"
             \/ /\ pq[k].pc = "awaiting"
                /\ \E i \in DOMAIN pq[k].round : pq[k].round[i] = "inflight"

\* weak fairness of EventLoop, WF_vars(EventLoop), with its enabling
\* condition written as the state predicate EventOutstanding
EventLoopFairness ==
    []<>(~EventOutstanding) \/ []<><<EventLoop>>_vars

\* one run: the events of the process, or its kill
RunNext == EventLoop \/ Interrupt

TerminationSpec == Init /\ [][RunNext]_vars /\ EventLoopFairness

(***************************************************************************)
(* The composition functions called on their own.  getRequiredForecasts    *)
(* (independent-forecast.js) and getGroupComposition                       *)
(* (deliberative-forecast.js) are applied to any question id, corpus index *)
(* and condition name, in any order, within one process or across          *)
(* processes.  gen.models is the MODELS array of deliberative-forecast.js, *)
(* the only state outside its arguments that getGroupComposition reads.    *)
(***************************************************************************)
QuestionIds == 105..MaxQuestionId

QuestionIndexes == 0..MaxQuestionIndex

\* condition names outside the switch ("sense_check" is the name
\* independent-forecast.js gives to the diverse_none forecasts)
UnknownConditions == {"sense_check"}

ConditionNames == Range(CONDITIONS) \cup UnknownConditions

\* mutant: seededShuffle(MODELS, seed) shuffling its argument in place
ModelsAfterShuffleInPlace(array, seed) == seededShuffle(array, seed)

\* the caller's array after seededShuffle([...MODELS], seed): the shuffle
\* works on a copy (result = [...array]), the array is as it was
ModelsAfterShuffle(array, seed) == array

SchedulerVars ==
    <<stage, indFiles, delFiles, main, pq, exitStatus, calls, failures, writes,
      startFiles, redundant, overwrites>>

\* getGroupComposition as a freshly loaded module computes it, tabulated
freshCompositions ==
    [condition \in ConditionNames |-> [questionId \in QuestionIds |->
        [questionIndex \in QuestionIndexes |->
            getGroupComposition(condition, questionId, questionIndex)]]]

freshRequired ==
    [questionId \in QuestionIds |-> [qIndex \in QuestionIndexes |->
        getRequiredForecasts(questionId, qIndex)]]

\* the call of getGroupComposition on the module's MODELS array as it is
CallOn(models_array, condition, questionId, questionIndex) ==
    IF models_array = MODELS
    THEN freshCompositions[condition][questionId][questionIndex]
    ELSE GroupCompositionOn(models_array, condition, questionId, questionIndex)

GetGroupCompositionCall(condition, questionId, questionIndex) ==
    /\ gen' = [models |-> IF condition = "diverse_info"
                          THEN ModelsAfterShuffle(gen.models, questionId + 1)
                          ELSE gen.models,
               call |-> [fn |-> "getGroupComposition", condition |-> condition,
                         questionId |-> questionId, questionIndex |-> questionIndex,
                         result |-> CallOn(gen.models, condition,
                                           questionId, questionIndex)],
               prev |-> gen.prev]
    /\ UNCHANGED <<SchedulerVars, information, analysis, contents, fetch>>

GetRequiredForecastsCall(questionId, qIndex) ==
    /\ gen' = [gen EXCEPT !.call =
                  [fn |-> "getRequiredForecasts", condition |-> "",
                   questionId |-> questionId, questionIndex |-> qIndex,
                   result |-> freshRequired[questionId][qIndex]]]
    /\ UNCHANGED <<SchedulerVars, information, analysis, contents, fetch>>

\* the last call of getGroupComposition is kept to compare later calls with
Remember ==
    /\ gen.call.fn = "getGroupComposition"
    /\ gen' = [gen EXCEPT !.prev = gen.call]
    /\ UNCHANGED <<SchedulerVars, information, analysis, contents, fetch>>

\* a new process: the module is loaded again
Reload ==
    /\ gen' = [gen EXCEPT !.models = MODELS, !.call = NoCall]
    /\ UNCHANGED <<SchedulerVars, information, analysis, contents, fetch>>

CompositionInit ==
    /\ stage = "deliberative"
    /\ indFiles = AllIndependentIds
    /\ delFiles = {}
    /\ main = InitMain
    /\ pq = [k \in QuestionIndices |-> IdlePQ]
    /\ exitStatus = Running
    /\ calls = <<>>
    /\ failures = <<>>
    /\ writes = <<>>
    /\ startFiles = {}
    /\ redundant = {}
    /\ overwrites = {}
    /\ gen = IdleGen
    /\ information = NoInformation
    /\ analysis = NoAnalysis
    /\ contents = NoContents
    /\ fetch = NoFetch

CompositionNext ==
    \/ \E condition \in ConditionNames : \E questionId \in QuestionIds :
          \E questionIndex \in QuestionIndexes :
             GetGroupCompositionCall(condition, questionId, questionIndex)
    \/ \E questionId \in QuestionIds : \E qIndex \in QuestionIndexes :
          GetRequiredForecastsCall(questionId, qIndex)
    \/ Remember
    \/ Reload

CompositionSpec == CompositionInit /\ [][CompositionNext]_vars

(***************************************************************************)
(* seededShuffle called on its own, on arrays of up to 3 elements, with    *)
(* any seed.  A seed acts only through the values seededRandom returns for *)
(* seed + 1 .. seed + 3, and those only through floor(value * m); the      *)
(* values are drawn from RandomValues, which has the least and the         *)
(* greatest value of [0,1) for every index the loop can compute, or are    *)
(* the values of seededRandom for the seed.  getGroupComposition is called *)
(* for diverse_info, the condition that shuffles.  Every behaviour makes   *)
(* one call.                                                               *)
(***************************************************************************)
\* values of [0,1) in millionths
RandomValues == {0, 333333, 333334, 499999, 500000, 666666, 666667, 999999}

Seeds == 105..(MaxQuestionId + 1)

ShuffledArrays ==
    {<<>>, <<"a">>, <<"a", "b">>, <<"a", "a", "b">>, MODELS, <<"info1", "info2", "info3">>}

SeededShuffleCall(array, seed, random) ==
    /\ gen' = [gen EXCEPT !.call =
                  [fn |-> "seededShuffle", array |-> array, seed |-> seed,
                   random |-> random,
                   after |-> ModelsAfterShuffle(array, seed),
                   result |-> ShuffleLoop(array, Len(array), random)]]
    /\ UNCHANGED <<SchedulerVars, information, analysis, contents, fetch>>

\* one call in a freshly loaded module
ShuffleNext ==
    \/ /\ gen.call = NoCall
       /\ \E array \in ShuffledArrays : \E seed \in Seeds :
             \E random \in [1..3 -> RandomValues] \cup {RandomOf(<<1, 2, 3>>, seed)} :
                SeededShuffleCall(array, seed, random)
    \/ /\ gen.call = NoCall
       /\ \E questionId \in QuestionIds : \E questionIndex \in QuestionIndexes :
             GetGroupCompositionCall("diverse_info", questionId, questionIndex)

ShuffleSpec == CompositionInit /\ [][ShuffleNext]_vars

(***************************************************************************)
(* A configuration error.  The independent stage run with a MODELS array   *)
(* that lacks a model: MODELS[qIndex % 3] and models[2] are then undefined *)
(* for some tasks, and independentForecastingAgent throws 'Label and model *)
(* are required' for them.  The store holds the artifacts of the tasks     *)
(* that have a model, except the open ones.                                *)
(***************************************************************************)
MisconfiguredModels == <<"pro", "sonnet">>

MisconfiguredIds(k) ==
    {IndependentTasksOn(MisconfiguredModels, k)[i].forecastId
        : i \in {j \in DOMAIN IndependentTasksOn(MisconfiguredModels, k) :
                    ~Missing(IndependentTasksOn(MisconfiguredModels, k)[j].agent.model)}}

MisconfiguredInit ==
    /\ stage = "independent"
    /\ indFiles = UNION {MisconfiguredIds(k) : k \in QuestionIndices}
                     \ UNION {Ids(Prefix(IndependentTasksOn(MisconfiguredModels, k),
                                         OpenCount(k))) : k \in QuestionIndices}
    /\ delFiles = {}
    /\ main = InitMain
    /\ pq = [k \in QuestionIndices |-> IdlePQ]
    /\ exitStatus = Running
    /\ calls = <<>>
    /\ failures = <<>>
    /\ writes = <<>>
    /\ startFiles = OutFiles
    /\ redundant = {}
    /\ overwrites = {}
    /\ gen = [IdleGen EXCEPT !.models = MisconfiguredModels]
    /\ information = NoInformation
    /\ analysis = NoAnalysis
    /\ contents = NoContents
    /\ fetch = NoFetch

MisconfiguredSpec == MisconfiguredInit /\ [][Next]_vars


(***************************************************************************)
(* INFORMATION MAPPING.  The supporting text of a task, computed by        *)
(* getInformation in the independent stage and by the conditional          *)
(* expression of generateSingleDeliberativeForecast in the deliberative    *)
(* stage.  A text is the sequence of the pieces it is made of: the         *)
(* fragments of question.informationPackages and the separators between    *)
(* them.                                                                   *)
(***************************************************************************)
FragmentTexts == {"fragment a", "fragment b", "fragment c"}

\* question.informationPackages of the questions: 3 fragments each
InformationPackages == [1..3 -> FragmentTexts]

InfoLabels == {"full", "none", "info1", "info2", "info3"}

\* array.join(separator)
RECURSIVE join(_, _)
join(array, separator) ==
    IF Len(array) = 0 THEN <<>>
    ELSE IF Len(array) = 1 THEN <<array[1]>>
    ELSE <<array[1], separator>> \o join(Tail(array), separator)

\* independent-forecast.js: getInformation(question, infoLabel)
getInformation(informationPackages, infoLabel) ==
    LET infoPkgs == informationPackages
    IN  CASE infoLabel = "none" -> <<"No additional information available.">>
          [] infoLabel = "full" -> join(infoPkgs, "\n\n")
          [] infoLabel = "info1" -> <<At(infoPkgs, 1)>>
          [] infoLabel = "info2" -> <<At(infoPkgs, 2)>>
          [] infoLabel = "info3" -> <<At(infoPkgs, 3)>>
          [] OTHER -> Throw("Unknown info label", infoLabel)

\* infoLabel.slice(-1): the last character of the label
slice(infoLabel) ==
    CASE infoLabel = "full" -> "l"
      [] infoLabel = "none" -> "e"
      [] infoLabel = "info1" -> "1"
      [] infoLabel = "info2" -> "2"
      [] infoLabel = "info3" -> "3"
      [] OTHER -> ""

\* NaN, which is the index of no element
NaN == -1

\* parseInt(string) of one character
parseInt(string) ==
    CASE string = "1" -> 1
      [] string = "2" -> 2
      [] string = "3" -> 3
      [] OTHER -> NaN

\* mutant: the digit of the label taken as the 0-based index
packageIndexOneOff(infoLabel) == parseInt(slice(infoLabel))

\* parseInt(agent.infoLabel.slice(-1)) - 1: the 0-based index of the fragment
packageIndex(infoLabel) ==
    IF parseInt(slice(infoLabel)) = NaN THEN NaN ELSE parseInt(slice(infoLabel)) - 1

\* deliberative-forecast.js: const information = agent.infoLabel === 'full' ? ... : ...
deliberativeInformation(informationPackages, infoLabel) ==
    IF infoLabel = "full" THEN join(informationPackages, "\n\n")
    ELSE IF infoLabel = "none" THEN <<"No additional information available.">>
    ELSE <<At(informationPackages, packageIndex(infoLabel) + 1)>>

SchedulerIdle ==
    /\ stage = "deliberative"
    /\ indFiles = AllIndependentIds
    /\ delFiles = {}
    /\ main = InitMain
    /\ pq = [k \in QuestionIndices |-> IdlePQ]
    /\ exitStatus = Running
    /\ calls = <<>>
    /\ failures = <<>>
    /\ writes = <<>>
    /\ startFiles = {}
    /\ redundant = {}
    /\ overwrites = {}
    /\ gen = IdleGen
    /\ contents = NoContents
    /\ fetch = NoFetch

\* a task of either stage: a question and the information label of its agent
InformationInit ==
    /\ SchedulerIdle
    /\ analysis = NoAnalysis
    /\ \E informationPackages \in InformationPackages : \E infoLabel \in InfoLabels :
          information = [NoInformation EXCEPT !.informationPackages = informationPackages,
                                              !.infoLabel = infoLabel]

\* generateSingleForecast: const information = getInformation(question, req.infoLabel)
IndependentInformation ==
    /\ information.independent = NotComputed
    /\ information' = [information EXCEPT !.independent =
                          getInformation(information.informationPackages,
                                         information.infoLabel)]
    /\ UNCHANGED <<SchedulerVars, gen, analysis, contents, fetch>>

\* generateSingleDeliberativeForecast: const information = ...
DeliberativeInformation ==
    /\ information.deliberative = NotComputed
    /\ information' = [information EXCEPT !.deliberative =
                          deliberativeInformation(information.informationPackages,
                                                  information.infoLabel)]
    /\ UNCHANGED <<SchedulerVars, gen, analysis, contents, fetch>>

InformationNext == IndependentInformation \/ DeliberativeInformation

InformationSpec == InformationInit /\ [][InformationNext]_vars

\* mutant: the agent's identifier leaves out the instance suffix
AgentForecastIdNoSuffix(questionId, model, infoLabel, instance) ==
    <<questionId, model, infoLabel>>

\* independentForecastingAgent: forecastId =
\* `${question.id}-${model}-${infoLabel}${instanceSuffix}`, returned as id
AgentForecastId(questionId, model, infoLabel, instance) ==
    <<questionId, model, infoLabel>>
        \o (IF instance # NoInstance THEN <<ToStr(instance)>> ELSE <<>>)

\* deliberativeForecastingAgent: forecastId =
\* `${question.id}-${condition}-${model}-${position}`
DeliberativeAgentForecastId(questionId, condition, model, position) ==
    <<questionId, condition, model, ToStr(position)>>

(***************************************************************************)
(* build-analysis-dataset.js: buildDataset.  It reads questions.json and   *)
(* the two stores and builds the forecast rows, the condition-pair rows    *)
(* and the question rows.  A stored result is the record the stage wrote;  *)
(* a store is the list of its parsed files, in the order of readdirSync.   *)
(***************************************************************************)
\* the file generateSingleForecast writes: forecastId is forecast.id, the
\* identifier independentForecastingAgent builds
IndependentResult(questionId, req, probability) ==
    [forecastId |-> AgentForecastId(questionId, req.model, req.infoLabel, req.instance),
     questionId |-> questionId,
     model |-> req.model,
     infoLabel |-> req.infoLabel,
     instance |-> req.instance,
     forecast |-> [probability |-> probability]]

\* the file generateSingleDeliberativeForecast writes: the value
\* deliberativeForecastingAgent returns
DeliberativeResult(questionId, request, probability) ==
    [forecastId |-> DeliberativeAgentForecastId(questionId, request.condition,
                                                request.model, request.position),
     questionId |-> questionId,
     condition |-> request.condition,
     model |-> request.model,
     position |-> request.position,
     infoLabel |-> request.infoLabel,
     independentForecastId |-> request.independentForecast,
     otherForecastIds |-> request.otherForecasts,
     forecast |-> [probability |-> probability]]

\* the id of a question that is not in questions.json (any more), with
\* results left in both stores
OrphanQuestionId == 100

\* the results the stores can hold: of the first question the first two
\* participants of diverse_full, of the second question the first
\* participant of homo_info, and one result of the orphan question; each
\* with the probability the service returned for it
DatasetTasks ==
    <<DeliberativeTasks(1, AllIndependentIds).allTasks[1],
      DeliberativeTasks(1, AllIndependentIds).allTasks[2],
      DeliberativeTasks(2, AllIndependentIds).allTasks[16]>>

DatasetQuestionIds == <<questions[1], questions[1], questions[2]>>

independentProbabilities == <<70, 40, 20, 90>>

deliberativeProbabilities == <<65, 45, 25, 85>>

independentCandidates ==
    [n \in 1..3 |-> IndependentResult(DatasetQuestionIds[n], DatasetTasks[n].agent,
                                      independentProbabilities[n])]
    \o <<IndependentResult(OrphanQuestionId, Req("pro", "full", NoInstance),
                           independentProbabilities[4])>>

deliberativeCandidates ==
    [n \in 1..3 |-> DeliberativeResult(DatasetQuestionIds[n], AgentRequest(DatasetTasks[n]),
                                       deliberativeProbabilities[n])]
    \o <<DeliberativeResult(OrphanQuestionId,
            [model |-> "pro", infoLabel |-> "full", condition |-> "diverse_full",
             position |-> 1,
             independentForecast |->
                 IndependentForecastId(OrphanQuestionId, "pro", "full", NoInstance),
             otherForecasts |->
                 <<IndependentForecastId(OrphanQuestionId, "sonnet", "full", NoInstance),
                   IndependentForecastId(OrphanQuestionId, "gpt5", "full", NoInstance)>>],
            deliberativeProbabilities[4])>>

\* loadForecasts(dir): the parsed files of the directory
loadForecasts(candidates, present) ==
    LET kept == SelectSeq([n \in DOMAIN candidates |-> n], LAMBDA n : n \in present)
    IN  [i \in DOMAIN kept |-> candidates[kept[i]]]

\* the resolution a question of questions.json can carry: it resolved yes
\* or no, or it has not resolved (any value other than the two)
Resolutions == {"yes", "no", "unresolved"}

\* data/processed/questions.json
questionsJson(resolutions) ==
    [k \in QuestionIndices |->
        [id |-> questions[k], questionTitle |-> "title", resolution |-> resolutions[k]]]

\* what follows the questions in questions.json: nothing, or the first
\* question listed once more, with a resolution of its own
RepeatedQuestions ==
    {<<>>} \cup {<<[id |-> questions[1], questionTitle |-> "title", resolution |-> answer]>> :
                    answer \in Resolutions}

\* mutant: only a question that resolved no gets 0
resolutionUnlessNo(answer) == IF answer = "no" THEN 0 ELSE 1

\* mutant: the ground truth of every question is 1
resolutionAlwaysOne(answer) == 1

\* q.resolution === 'yes' ? 1 : 0
resolution(answer) == IF answer = "yes" THEN 1 ELSE 0

\* questionMap: an object keyed by question id
questionMap(questionsFile) ==
    [id \in {questionsFile[k].id : k \in DOMAIN questionsFile} |->
        LET q == questionsFile[CHOOSE k \in DOMAIN questionsFile :
                                  /\ questionsFile[k].id = id
                                  /\ \A j \in DOMAIN questionsFile :
                                        questionsFile[j].id = id => j <= k]
        IN  [id |-> q.id, title |-> q.questionTitle, resolution |-> resolution(q.resolution)]]

\* independentMap: an object keyed by forecastId, a later file replaces an
\* earlier one with the same forecastId
independentMap(independentForecasts) ==
    [forecastId \in {independentForecasts[i].forecastId : i \in DOMAIN independentForecasts} |->
        independentForecasts[CHOOSE i \in DOMAIN independentForecasts :
            /\ independentForecasts[i].forecastId = forecastId
            /\ \A j \in DOMAIN independentForecasts :
                  independentForecasts[j].forecastId = forecastId => j <= i]]

\* for (const f of independentForecasts): if (!q) continue, else push
independentRows(qMap, independentForecasts) ==
    LET kept == SelectSeq(independentForecasts, LAMBDA f : f.questionId \in DOMAIN qMap)
    IN  [i \in DOMAIN kept |->
            [question_id |-> kept[i].questionId,
             resolution |-> qMap[kept[i].questionId].resolution,
             forecast_id |-> kept[i].forecastId,
             stage |-> "independent",
             condition |-> "",
             model |-> kept[i].model,
             info_label |-> kept[i].infoLabel,
             position |-> "",
             probability |-> kept[i].forecast.probability]]

\* for (const f of deliberativeForecasts): if (!q) continue, else push
deliberativeRows(qMap, deliberativeForecasts) ==
    LET kept == SelectSeq(deliberativeForecasts, LAMBDA f : f.questionId \in DOMAIN qMap)
    IN  [i \in DOMAIN kept |->
            [question_id |-> kept[i].questionId,
             resolution |-> qMap[kept[i].questionId].resolution,
             forecast_id |-> kept[i].forecastId,
             stage |-> "deliberative",
             condition |-> kept[i].condition,
             model |-> kept[i].model,
             info_label |-> kept[i].infoLabel,
             position |-> kept[i].position,
             probability |-> kept[i].forecast.probability]]

\* mutant: a deliberative result without its independent result is left
\* out of the forecast rows as well
forecastRowsLinkedOnly(qMap, independentForecasts, deliberativeForecasts) ==
    independentRows(qMap, independentForecasts)
    \o deliberativeRows(qMap, SelectSeq(deliberativeForecasts, LAMBDA df :
            \E i \in DOMAIN independentForecasts :
                independentForecasts[i].forecastId = df.independentForecastId))

\* forecastRows: one row per forecast, the independent ones first
forecastRows(qMap, independentForecasts, deliberativeForecasts) ==
    independentRows(qMap, independentForecasts) \o deliberativeRows(qMap, deliberativeForecasts)

\* key = `${f.questionId}-${f.condition}`
GroupKey(f) == <<f.questionId, f.condition>>

\* the keys of deliberativeByQC in the order they were first seen
RECURSIVE GroupKeys(_, _)
GroupKeys(deliberativeForecasts, keys) ==
    IF deliberativeForecasts = <<>> THEN keys
    ELSE LET key == GroupKey(Head(deliberativeForecasts))
         IN  GroupKeys(Tail(deliberativeForecasts),
                       IF key \in Range(keys) THEN keys ELSE Append(keys, key))

\* Object.entries(deliberativeByQC): the groups, each with its results in
\* the order of the store
deliberativeByQC(deliberativeForecasts) ==
    LET keys == GroupKeys(deliberativeForecasts, <<>>)
    IN  [g \in DOMAIN keys |->
            SelectSeq(deliberativeForecasts, LAMBDA f : GroupKey(f) = keys[g])]

\* mutant: the two probabilities of a pair swapped
pairProbabilitiesSwapped(indF, df) ==
    [independent_prob |-> df.forecast.probability,
     deliberative_prob |-> indF.forecast.probability]

\* independent_prob: indF.forecast.probability, deliberative_prob: df.forecast.probability
pairProbabilities(indF, df) ==
    [independent_prob |-> indF.forecast.probability,
     deliberative_prob |-> df.forecast.probability]

\* the rows of one group: for (const df of delGroup) { if (!indF) continue; push }
groupRows(qMap, indMap, delGroup) ==
    LET qid == delGroup[1].questionId
        condition == delGroup[1].condition
        linked == SelectSeq(delGroup, LAMBDA df : df.independentForecastId \in DOMAIN indMap)
    IN  IF qid \notin DOMAIN qMap THEN <<>>
        ELSE [i \in DOMAIN linked |->
                 LET df == linked[i]
                     indF == indMap[df.independentForecastId]
                 IN  [question_id |-> qid,
                      resolution |-> qMap[qid].resolution,
                      condition |-> condition,
                      model |-> df.model,
                      info_label |-> df.infoLabel,
                      position |-> df.position,
                      independent_forecast_id |-> df.independentForecastId,
                      deliberative_forecast_id |-> df.forecastId,
                      independent_prob |-> pairProbabilities(indF, df).independent_prob,
                      deliberative_prob |-> pairProbabilities(indF, df).deliberative_prob]]

\* conditionRows: the rows of the groups one after the other
RECURSIVE conditionRows(_, _, _)
conditionRows(qMap, indMap, groups) ==
    IF groups = <<>> THEN <<>>
    ELSE groupRows(qMap, indMap, Head(groups)) \o conditionRows(qMap, indMap, Tail(groups))

\* Object.values(object) of an object with integer keys: in ascending
\* order of the keys
RECURSIVE ObjectValues(_)
ObjectValues(object) ==
    IF DOMAIN object = {} THEN <<>>
    ELSE LET least == CHOOSE key \in DOMAIN object : \A other \in DOMAIN object : key <= other
         IN  <<object[least]>>
             \o ObjectValues([key \in DOMAIN object \ {least} |-> object[key]])

\* questionRows: Object.values(questionMap).map(...)
questionRows(qMap) ==
    [n \in DOMAIN ObjectValues(qMap) |->
        [question_id |-> ObjectValues(qMap)[n].id,
         resolution |-> ObjectValues(qMap)[n].resolution,
         title |-> ObjectValues(qMap)[n].title]]

\* buildDataset(): { forecastRows, conditionRows, questionRows }
buildDataset(questionsFile, independentForecasts, deliberativeForecasts) ==
    LET qMap == questionMap(questionsFile)
        indMap == independentMap(independentForecasts)
    IN  [forecastRows |-> forecastRows(qMap, independentForecasts, deliberativeForecasts),
         conditionRows |-> conditionRows(qMap, indMap, deliberativeByQC(deliberativeForecasts)),
         questionRows |-> questionRows(qMap)]

\* the files buildDataset finds: any resolutions of the questions, the
\* first question listed once or twice, any of the candidate results in
\* either store
DatasetInit ==
    /\ SchedulerIdle
    /\ information = NoInformation
    /\ \E resolutions \in [QuestionIndices -> Resolutions] :
       \E repeated \in RepeatedQuestions :
       \E independentPresent \in SUBSET DOMAIN independentCandidates :
       \E deliberativePresent \in SUBSET DOMAIN deliberativeCandidates :
          analysis = [pc |-> "start",
                      questions |-> questionsJson(resolutions) \o repeated,
                      independentForecasts |->
                          loadForecasts(independentCandidates, independentPresent),
                      deliberativeForecasts |->
                          loadForecasts(deliberativeCandidates, deliberativePresent)]

\* const { forecastRows, conditionRows, questionRows } = buildDataset()
BuildDataset ==
    /\ analysis.pc = "start"
    /\ analysis' =
          [pc |-> "built",
           questions |-> analysis.questions,
           independentForecasts |-> analysis.independentForecasts,
           deliberativeForecasts |-> analysis.deliberativeForecasts,
           dataset |-> buildDataset(analysis.questions, analysis.independentForecasts,
                                    analysis.deliberativeForecasts)]
    /\ UNCHANGED <<SchedulerVars, gen, information, contents, fetch>>

DatasetNext == BuildDataset

DatasetSpec == DatasetInit /\ [][DatasetNext]_vars

(***************************************************************************)
(* The files the stages write.  A successful task writes the file named    *)
(* by the identifier generateSingle(Deliberative)Forecast computes, with   *)
(* the contents the agent returns; the deliberative stage builds its tasks *)
(* from the parsed files of the independent store.  The independent stage  *)
(* starts on an empty store or on the store that lacks the open tasks, the *)
(* deliberative stage on each independent store of Init, filled by the     *)
(* independent stage.  Every behaviour writes one file, of any task.       *)
(***************************************************************************)
\* forecast.probability as the service returns it
Probabilities == {20, 70}

\* the file the independent stage wrote for a task identifier
IndependentContents(forecastId) ==
    LET k == CHOOSE x \in QuestionIndices : questions[x] = forecastId[1]
        tasks == IndependentTasks(k)
        i == CHOOSE x \in DOMAIN tasks : tasks[x].forecastId = forecastId
    IN  IndependentResult(questions[k], tasks[i].agent, 50)

\* JSON.parse(fs.readFileSync(filename, 'utf8')), or null: the parsed file,
\* represented by its forecastId field
loadIndependentContents(questionId, model, infoLabel, instance, store) ==
    LET filename == IndependentFilename(questionId, model, infoLabel, instance)
    IN  IF ~existsSync(filename, DOMAIN store) THEN Null ELSE store[filename].forecastId

ContentsInit ==
    /\ stage \in Stages
    /\ \/ /\ stage = "independent"
          /\ \E open \in {AllIndependentIds, OpenIndependentIds} :
                indFiles = AllIndependentIds \ open
       \/ /\ stage = "deliberative"
          /\ \E missing \in MissingChoices : indFiles = AllIndependentIds \ missing
    /\ delFiles = {}
    /\ contents = [independent |-> [forecastId \in indFiles |-> IndependentContents(forecastId)],
                   deliberative |-> <<>>]
    /\ main = InitMain
    /\ pq = [k \in QuestionIndices |-> IdlePQ]
    /\ exitStatus = Running
    /\ calls = <<>>
    /\ failures = <<>>
    /\ writes = <<>>
    /\ startFiles = OutFiles
    /\ redundant = {}
    /\ overwrites = {}
    /\ gen = IdleGen
    /\ information = NoInformation
    /\ analysis = NoAnalysis
    /\ fetch = NoFetch

\* generateSingleForecast for the i-th required forecast of question k, the
\* service returning a forecast: fs.writeFileSync(outputFile, result)
WriteIndependent(k, i, probability) ==
    /\ stage = "independent"
    /\ writes = <<>>
    /\ i \in DOMAIN IndependentTasks(k)
    /\ LET task == IndependentTasks(k)[i]
           forecastId == task.forecastId
       IN  /\ ~existsSync(forecastId, indFiles)
           /\ indFiles' = indFiles \cup {forecastId}
           /\ contents' = [contents EXCEPT !.independent =
                              (forecastId :> IndependentResult(questions[k], task.agent,
                                                               probability)) @@ @]
           /\ writes' = CountAll(writes, <<forecastId>>)
    /\ UNCHANGED <<stage, delFiles, main, pq, exitStatus, calls, failures, startFiles,
                   redundant, overwrites, gen, information, analysis, fetch>>

\* processQuestion builds the tasks of condition c of question k from the
\* independent store, and generateSingleDeliberativeForecast writes the
\* value the agent returns for the task at the position
WriteDeliberative(k, c, position, probability) ==
    /\ stage = "deliberative"
    /\ writes = <<>>
    /\ LET condition == CONDITIONS[c]
           groupComposition == groupCompositions[k][c]
           independentForecasts ==
               [i \in DOMAIN groupComposition |->
                   loadIndependentContents(questions[k], groupComposition[i].model,
                                           groupComposition[i].infoLabel,
                                           groupComposition[i].instance,
                                           contents.independent)]
       IN  /\ ~GroupIncomplete(independentForecasts)
           /\ LET task == createTask(questions[k], condition, groupComposition,
                                     independentForecasts, position)
                  forecastId == task.forecastId
              IN  /\ ~existsSync(forecastId, delFiles)
                  /\ delFiles' = delFiles \cup {forecastId}
                  /\ contents' = [contents EXCEPT !.deliberative =
                                     (forecastId :> DeliberativeResult(questions[k],
                                                                       AgentRequest(task),
                                                                       probability)) @@ @]
                  /\ writes' = CountAll(writes, <<forecastId>>)
    /\ UNCHANGED <<stage, indFiles, main, pq, exitStatus, calls, failures, startFiles,
                   redundant, overwrites, gen, information, analysis, fetch>>

ContentsNext ==
    \/ \E k \in QuestionIndices : \E i \in 1..18 : \E probability \in Probabilities :
          WriteIndependent(k, i, probability)
    \/ \E k \in QuestionIndices : \E c \in DOMAIN CONDITIONS : \E position \in 1..3 :
          \E probability \in Probabilities :
             WriteDeliberative(k, c, position, probability)

ContentsSpec == ContentsInit /\ [][ContentsNext]_vars

(***************************************************************************)
(* agentUtils.js: getPostsByTournamentId and getCommentsByAuthorId, the    *)
(* paginated fetch loops.  fetch holds the activation of one call:         *)
(*   pc = "idle"      not called                                           *)
(*   pc = "fetching"  await fetch(URL) of the page at offset               *)
(*   pc = "waiting"   await of the 5 s timer after a 429 response          *)
(*   pc = "pausing"   await of the timer between two pages                 *)
(*   pc = "done"      the while loop was left by its condition             *)
(*   pc = "thrown"    an exception left the function: its promise is       *)
(*                    rejected with error and the caller gets no results   *)
(* results is the number of items pushed to posts / allResults, status the *)
(* status of the last response, timers the delays awaited so far.  What    *)
(* getCommentsByAuthorId does after the loop (filtering the comments by    *)
(* their text and post) does not touch the variables of the loop.          *)
(***************************************************************************)
MAX_POSTS == 1000

LIMIT == 100

MAX_COMMENTS == 10000

FetchFunctions == {"getPostsByTournamentId", "getCommentsByAuthorId"}

\* the let declarations of the two functions
Declared(fn) ==
    IF fn = "getPostsByTournamentId"
    THEN {"offset", "hasNext", "errorCount", "posts"}
    ELSE {"offset", "hasNext", "allResults"}

\* data.next of an ok response: null, or the link to the next page
NextLinks == {Null, <<"next">>}

\* data.results.length of an ok response: a page of the limit requested, or
\* a shorter one
PageLengths == {0, 1, LIMIT}

\* the locals at the head of the loop; errorCount is a variable of the
\* activation only where the function declares it
FetchLocals(fn) ==
    [pc |-> "fetching", fn |-> fn, offset |-> 0, hasNext |-> TRUE, errorCount |-> 0,
     results |-> 0, status |-> 0, timers |-> <<>>, error |-> ""]

\* while (offset < MAX_POSTS && hasNext && errorCount < 3)
\* while (offset < MAX_COMMENTS && hasNext)
LoopCondition(f) ==
    IF f.fn = "getPostsByTournamentId"
    THEN f.offset < MAX_POSTS /\ f.hasNext /\ f.errorCount < 3
    ELSE f.offset < MAX_COMMENTS /\ f.hasNext

\* the head of the while loop: the next fetch, or the code after the loop
LoopHead(f) ==
    IF LoopCondition(f) THEN [f EXCEPT !.pc = "fetching"] ELSE [f EXCEPT !.pc = "done"]

\* await new Promise(resolve => setTimeout(resolve, ms))
AwaitTimer(f, pc, ms) == [f EXCEPT !.pc = pc, !.timers = Append(@, ms)]

\* throw: the promise of the async function is rejected
Reject(f, error) == [f EXCEPT !.pc = "thrown", !.error = error]

\* if (response.status === 429) { errorCount++; await timer(5_000); continue }
\* errorCount++ on an identifier without a binding throws a ReferenceError
RateLimited(f) ==
    IF "errorCount" \notin Declared(f.fn)
    THEN Reject(f, "ReferenceError: errorCount is not defined")
    ELSE AwaitTimer([f EXCEPT !.errorCount = @ + 1], "waiting", 5000)

\* hasNext = data.next !== null && data.results && data.results.length === LIMIT
\* hasNext = data.next !== null && results && results.length >= LIMIT
HasNext(fn, next, length) ==
    /\ next # Null
    /\ IF fn = "getPostsByTournamentId" THEN length = LIMIT ELSE length >= LIMIT

\* the body of the loop after an ok response: push the results, advance the
\* offset, and pause before the next page if there is one
PageReceived(f, next, length) ==
    LET f1 == [f EXCEPT !.results = @ + length,
                        !.offset = @ + LIMIT,
                        !.hasNext = HasNext(f.fn, next, length)]
    IN  IF f1.hasNext
        THEN AwaitTimer(f1, "pausing", IF f.fn = "getPostsByTournamentId" THEN 1000 ELSE 2000)
        ELSE LoopHead(f1)

FetchInit ==
    /\ SchedulerIdle
    /\ information = NoInformation
    /\ analysis = NoAnalysis

FetchUnchanged == UNCHANGED <<SchedulerVars, gen, information, analysis, contents>>

\* getPostsByTournamentId(tournamentId) / getCommentsByAuthorId(authorId),
\* up to the first await
CallFetch(fn) ==
    /\ fetch.pc = "idle"
    /\ fetch' = LoopHead(FetchLocals(fn))
    /\ FetchUnchanged

\* the fetch resolves with an ok response
ResponseOk(next, length) ==
    /\ fetch.pc = "fetching"
    /\ fetch' = PageReceived([fetch EXCEPT !.status = 200], next, length)
    /\ FetchUnchanged

\* the fetch resolves with HTTP 429
Response429 ==
    /\ fetch.pc = "fetching"
    /\ fetch' = RateLimited([fetch EXCEPT !.status = 429])
    /\ FetchUnchanged

\* the fetch resolves with another HTTP error: throw new Error(...)
ResponseError ==
    /\ fetch.pc = "fetching"
    /\ fetch' = Reject([fetch EXCEPT !.status = 500], "HTTP error! status: 500")
    /\ FetchUnchanged

\* a timer fires: continue after a 429, or the end of the loop body
TimerFires ==
    /\ fetch.pc \in {"waiting", "pausing"}
    /\ fetch' = LoopHead(fetch)
    /\ FetchUnchanged

FetchNext ==
    \/ \E fn \in FetchFunctions : CallFetch(fn)
    \/ \E next \in NextLinks : \E length \in PageLengths : ResponseOk(next, length)
    \/ Response429
    \/ ResponseError
    \/ TimerFires

FetchSpec == FetchInit /\ [][FetchNext]_vars

(***************************************************************************)
(* build-analysis-dataset.js: toCSV.  A string is the sequence of its      *)
(* characters; a value is a string, a number or null, tagged with its      *)
(* type (typeof); a row is an object, the list of its entries in the       *)
(* order of Object.keys.                                                   *)
(***************************************************************************)
Comma == ","
Quote == "\""
LF == "\n"
CR == "\r"

\* the characters of the free-text values: a letter, the delimiter, the
\* quote character and the two line-break characters
Characters == {"a", Comma, Quote, LF, CR}

StringValue(chars) == [type |-> "string", v |-> chars]
NumberValue(n) == [type |-> "number", v |-> n]
NullValue == [type |-> "null", v |-> 0]
UndefinedValue == [type |-> "undefined", v |-> 0]

\* v.includes(c)
includes(chars, c) == \E i \in DOMAIN chars : chars[i] = c

\* v.replace(/"/g, '""')
RECURSIVE replace(_)
replace(chars) ==
    IF chars = <<>> THEN <<>>
    ELSE (IF Head(chars) = Quote THEN <<Quote, Quote>> ELSE <<Head(chars)>>)
         \o replace(Tail(chars))

\* String(n) of a number of one decimal digit
String(n) ==
    <<CASE n = 0 -> "0" [] n = 1 -> "1" [] n = 2 -> "2" [] n = 3 -> "3" [] n = 4 -> "4"
        [] n = 5 -> "5" [] n = 6 -> "6" [] n = 7 -> "7" [] n = 8 -> "8" [] OTHER -> "9">>

\* `"${v.replace(/"/g, '""')}"`
escaped(chars) == <<Quote>> \o replace(chars) \o <<Quote>>

\* the callback of headers.map, and the string Array.prototype.join makes
\* of what it returns
field(value) ==
    IF value.type = "null" \/ value.type = "undefined" THEN <<>>
    ELSE IF value.type = "string"
              /\ (includes(value.v, Comma) \/ includes(value.v, Quote) \/ includes(value.v, LF))
         THEN escaped(value.v)
    ELSE IF value.type = "string" THEN value.v
    ELSE String(value.v)

\* array.join(separator) of an array of strings, as one string
RECURSIVE joinText(_, _)
joinText(array, separator) ==
    IF Len(array) = 0 THEN <<>>
    ELSE IF Len(array) = 1 THEN array[1]
    ELSE array[1] \o <<separator>> \o joinText(Tail(array), separator)

\* row[h]
Get(row, h) ==
    IF \E i \in DOMAIN row : row[i].key = h
    THEN row[CHOOSE i \in DOMAIN row : row[i].key = h].value
    ELSE UndefinedValue

\* Object.keys(rows[0])
ObjectKeys(row) == [i \in DOMAIN row |-> row[i].key]

toCSV(rows) ==
    IF Len(rows) = 0 THEN <<>>
    ELSE LET headers == ObjectKeys(rows[1])
             lines == <<joinText(headers, Comma)>>
                      \o [r \in DOMAIN rows |->
                             joinText([c \in DOMAIN headers |->
                                          field(Get(rows[r], headers[c]))], Comma)]
         IN  joinText(lines, LF)

\* the strings of at most n characters
RECURSIVE Strings(_)
Strings(n) ==
    IF n = 0 THEN {<<>>}
    ELSE Strings(n - 1)
         \cup {Append(chars, c) : chars \in {x \in Strings(n - 1) : Len(x) = n - 1},
                                  c \in Characters}

\* a row of the question table: { question_id, resolution, title }
QuestionRow(question_id, resolution_value, title) ==
    <<[key |-> <<"i", "d">>, value |-> NumberValue(question_id)],
      [key |-> <<"r">>, value |-> NumberValue(resolution_value)],
      [key |-> <<"t">>, value |-> title]>>

\* the rows toCSV is given: two rows, the title of the first one any string
\* of at most MaxLen characters or null
CsvInit ==
    /\ SchedulerIdle
    /\ information = NoInformation
    /\ \E title \in {StringValue(chars) : chars \in Strings(MaxLen)} \cup {NullValue} :
       \E second \in {NullValue, StringValue(<<"a">>), StringValue(<<"a", Comma>>)} :
          analysis = [pc |-> "rows",
                      rows |-> <<QuestionRow(1, 1, title), QuestionRow(2, 0, second)>>]

\* fs.writeFileSync(path, toCSV(rows))
WriteCSV ==
    /\ analysis.pc = "rows"
    /\ analysis' = [pc |-> "written", rows |-> analysis.rows, csv |-> toCSV(analysis.rows)]
    /\ UNCHANGED <<SchedulerVars, gen, information, contents, fetch>>

CsvNext == WriteCSV

CsvSpec == CsvInit /\ [][CsvNext]_vars

(***************************************************************************)
(* Observations used by the properties.                                    *)
(***************************************************************************)
Count(f, id) == IF id \in DOMAIN f THEN f[id] ELSE 0

\* the independent results missing from the store (deliberative stage: one
\* of MissingChoices, told apart by their sizes; the stage does not write
\* to that store)
independentCount == Cardinality(AllIndependentIds)

MissingNow ==
    CHOOSE missing \in MissingChoices :
        Cardinality(missing) = independentCount - Cardinality(indFiles)

\* the conditions of question k whose 3 independent results are in the
\* store, for each independent store of Init
presentConditions ==
    [missing \in MissingChoices |-> [k \in QuestionIndices |->
        {c \in DOMAIN CONDITIONS :
            \A i \in DOMAIN groupCompositions[k][c] :
                IndependentFilename(questions[k], groupCompositions[k][c][i].model,
                                    groupCompositions[k][c][i].infoLabel,
                                    groupCompositions[k][c][i].instance)
                    \in AllIndependentIds \ missing}]]

ConditionPresent(k, c) == c \in presentConditions[MissingNow][k]

\* the identifiers of the tasks of question k, in the order they are built
independentTaskIds ==
    [k \in QuestionIndices |->
        [i \in DOMAIN IndependentTasks(k) |-> IndependentTasks(k)[i].forecastId]]

deliberativeTaskIds ==
    [missing \in MissingChoices |-> [k \in QuestionIndices |->
        LET tasks == DeliberativeTasks(k, AllIndependentIds \ missing).allTasks
        IN  [i \in DOMAIN tasks |-> tasks[i].forecastId]]]

TaskIds(k) ==
    IF stage = "independent" THEN independentTaskIds[k] ELSE deliberativeTaskIds[MissingNow][k]

\* the corpus position of the question a task identifier belongs to
QuestionOf(forecastId) == CHOOSE k \in QuestionIndices : questions[k] = forecastId[1]

\* service calls of forecastId that are awaited now
InFlight(forecastId) ==
    LET k == QuestionOf(forecastId)
    IN  Cardinality({i \in DOMAIN pq[k].round :
                        /\ pq[k].round[i] = "inflight"
                        /\ pq[k].pending[i].forecastId = forecastId})

\* service calls of forecastId that returned a forecast in this run
Successes(forecastId) ==
    Count(calls, forecastId) - Count(failures, forecastId) - InFlight(forecastId)

\* the results processQuestion holds for forecastId with the given status
Reported(k, forecastId, status) ==
    Len(SelectSeq(pq[k].allResults,
                  LAMBDA r : r.forecastId = forecastId /\ r.status = status))

CalledIdsOf(k) == {id \in DOMAIN calls : id[1] = questions[k]}

(***************************************************************************)
(* C1  Retry bound.  In either stage, when processQuestion has returned,   *)
(* a task all of whose calls to the Forecasting Service failed was         *)
(* dispatched exactly MAX_RETRIES_PER_QUESTION times and is reported       *)
(* persistent_failure (once); a task reported persistent_failure failed    *)
(* in every one of its MAX_RETRIES_PER_QUESTION calls; and no task is      *)
(* ever dispatched more often than that.                                   *)
(***************************************************************************)
C1_RetryBound ==
    /\ \A id \in DOMAIN calls : calls[id] <= MAX_RETRIES_PER_QUESTION
    /\ \A k \in QuestionIndices :
          pq[k].pc = "returned" =>
              /\ \A id \in CalledIdsOf(k) :
                    Count(failures, id) = calls[id] =>
                        /\ calls[id] = MAX_RETRIES_PER_QUESTION
                        /\ Reported(k, id, "persistent_failure") = 1
              /\ \A i \in DOMAIN pq[k].allResults :
                    pq[k].allResults[i].status = "persistent_failure" =>
                        /\ Count(calls, pq[k].allResults[i].forecastId) = MAX_RETRIES_PER_QUESTION
                        /\ Count(failures, pq[k].allResults[i].forecastId) = MAX_RETRIES_PER_QUESTION

C1_Witness ==
    \E k \in QuestionIndices : \E id \in CalledIdsOf(k) :
        /\ stage = "deliberative"
        /\ pq[k].pc = "returned"
        /\ Count(failures, id) = MAX_RETRIES_PER_QUESTION
        /\ Reported(k, id, "persistent_failure") = 1


(***************************************************************************)
(* C2  Circuit breaker.  In either stage a question is dispatched only     *)
(* while fewer than MAX_TOTAL_FAILURES questions of the earlier batches    *)
(* have a persistently failed task; and once the tally has reached         *)
(* MAX_TOTAL_FAILURES the process has exited with every question idle or   *)
(* returned, so nothing of a later batch is ever dispatched.               *)
(***************************************************************************)
BatchStartOf(k) == ((k - 1) \div BATCH_SIZE) * BATCH_SIZE

FailedBefore(k) ==
    Cardinality({j \in 1..BatchStartOf(k) : pq[j].persistentFailures > 0})

C2_CircuitBreaker ==
    /\ \A k \in QuestionIndices :
          pq[k].pc # "idle" => FailedBefore(k) < MAX_TOTAL_FAILURES
    /\ Len(main.questionsWithFailures) >= MAX_TOTAL_FAILURES =>
          /\ exitStatus # Running
          /\ \A k \in QuestionIndices : pq[k].pc \in {"idle", "returned"}

C2_Witness ==
    /\ Len(main.questionsWithFailures) = MAX_TOTAL_FAILURES
    /\ exitStatus = 1
    /\ main.batchStart + BATCH_SIZE < NumQuestions
    /\ \A k \in QuestionIndices : k > main.batchStart + BATCH_SIZE => pq[k].pc = "idle"

(***************************************************************************)
(* C3  Dependency integrity.  In the deliberative stage every task that    *)
(* is pending, reported, sent to the service or written belongs to a       *)
(* (question, condition) group whose 3 independent results are in the      *)
(* independent store, and carries those 3 results.                         *)
(***************************************************************************)
ConditionIndex(condition) == CHOOSE c \in DOMAIN CONDITIONS : CONDITIONS[c] = condition

GroupPresent(forecastId) ==
    ConditionPresent(QuestionOf(forecastId), ConditionIndex(forecastId[2]))

C3_DependencyIntegrity ==
    stage = "deliberative" =>
        /\ \A k \in QuestionIndices :
              /\ \A i \in DOMAIN pq[k].pending :
                    /\ GroupPresent(pq[k].pending[i].forecastId)
                    /\ Len(pq[k].pending[i].independentForecasts) = 3
                    /\ \A j \in 1..3 : pq[k].pending[i].independentForecasts[j] \in indFiles
              /\ \A i \in DOMAIN pq[k].allResults :
                    GroupPresent(pq[k].allResults[i].forecastId)
        /\ \A id \in DOMAIN calls : GroupPresent(id)
        /\ \A id \in DOMAIN writes : GroupPresent(id)

C3_Witness ==
    /\ stage = "deliberative"
    /\ pq[1].pc = "returned"
    /\ pq[1].skipped = 3
    /\ Len(pq[1].allResults) = 15
    /\ \E id \in DOMAIN writes : id \in delFiles

(***************************************************************************)
(* C4  Idempotence.  A run of either stage that starts on a store holding  *)
(* the artifact of every task the stage requires makes no service call     *)
(* and no write, reports every task cached and none persistently failed,   *)
(* and exits with status 0.                                                *)
(***************************************************************************)
\* the deliberative tasks that can be built, for each independent store of Init
BuildableIds ==
    [missing \in MissingChoices |->
        UNION {Ids(DeliberativeTasks(k, AllIndependentIds \ missing).allTasks)
                 : k \in QuestionIndices}]

RequiredIds ==
    IF stage = "independent"
    THEN AllIndependentIds
    ELSE BuildableIds[MissingNow]

RunOnCompleteStore ==
    /\ main.pc # "start"
    /\ exitStatus # Interrupted
    /\ RequiredIds \subseteq startFiles

C4_Idempotence ==
    RunOnCompleteStore =>
        /\ calls = <<>>
        /\ OutFiles = startFiles
        /\ exitStatus = 0
        /\ main.totalCompleted = 0
        /\ main.totalPersistentFailures = 0
        /\ main.totalCached = Cardinality(RequiredIds)
        /\ \A k \in QuestionIndices :
              /\ pq[k].pc = "returned"
              /\ pq[k].persistentFailures = 0
              /\ Len(pq[k].allResults) = Len(TaskIds(k))
              /\ \A i \in DOMAIN pq[k].allResults :
                    pq[k].allResults[i] = Result("cached", TaskIds(k)[i])

C4_Witness ==
    /\ RunOnCompleteStore
    /\ exitStatus = 0
    /\ main.totalCached > 0
    /\ \E id \in DOMAIN writes : id \in startFiles

(***************************************************************************)
(* C5  No redundant call.  Over all runs of a stage on one store,          *)
(* interrupted or halted runs included, no task is sent to the             *)
(* Forecasting Service while its artifact is in the store: the service is  *)
(* called only for identifiers that are missing when they are dispatched.  *)
(***************************************************************************)
C5_NoRedundantCall ==
    /\ redundant = {}
    /\ \A id \in DOMAIN calls : id \notin startFiles

C5_Witness ==
    /\ calls # <<>>
    /\ \E k \in QuestionIndices : \E i \in DOMAIN pq[k].allResults :
          /\ pq[k].allResults[i].status = "cached"
          /\ pq[k].allResults[i].forecastId \in DOMAIN writes


(***************************************************************************)
(* C6  Write once.  With one process per stage and distinct question ids,  *)
(* no key is written more than once over all runs, no key is written       *)
(* while it is already in the store, and a key enters the store during a   *)
(* run only through one successful service call of its task.               *)
(***************************************************************************)
C6_WriteOnce ==
    /\ overwrites = {}
    /\ \A id \in DOMAIN writes : writes[id] = 1 /\ id \in OutFiles
    /\ \A id \in OutFiles \ startFiles : Successes(id) = 1
    /\ \A id \in DOMAIN calls : Successes(id) = IF id \in OutFiles THEN 1 ELSE 0

C6_Witness ==
    /\ Cardinality(DOMAIN writes) >= 2
    /\ \E id \in DOMAIN writes : id \in startFiles
    /\ \E id \in DOMAIN writes : id \in OutFiles \ startFiles /\ Count(failures, id) > 0

(***************************************************************************)
(* C7  Batches in sequence.  Every question with a service call in flight  *)
(* or a retry delay running belongs to the current batch; no question of   *)
(* a later batch has started; a question has started only if every         *)
(* question of the earlier batches has returned; so at most BATCH_SIZE     *)
(* questions are active at any moment.                                     *)
(***************************************************************************)
Active(k) == pq[k].pc \in {"awaiting", "sleeping"}

C7_BatchesInSequence ==
    /\ \A k \in QuestionIndices :
          /\ Active(k) => main.pc = "await" /\ BatchStartOf(k) = main.batchStart
          /\ BatchStartOf(k) > main.batchStart => pq[k].pc = "idle"
          /\ pq[k].pc # "idle" => \A j \in 1..BatchStartOf(k) : pq[j].pc = "returned"
    /\ Cardinality({k \in QuestionIndices : Active(k)}) <= BATCH_SIZE

C7_Witness ==
    /\ main.batchStart > 0
    /\ \E k \in QuestionIndices :
          /\ BatchStartOf(k) = main.batchStart
          /\ \E i \in DOMAIN pq[k].round : pq[k].round[i] = "inflight"
    /\ \E j \in QuestionIndices : BatchStartOf(j) = 0 /\ pq[j].retryCount > 0

(***************************************************************************)
(* C8  Siblings survive.  In either stage a task one of whose service      *)
(* calls succeeded has its artifact in the store, and once its question    *)
(* has returned it is reported success exactly once and never              *)
(* persistent_failure, whatever happened to the other tasks.               *)
(***************************************************************************)
C8_SiblingsSurvive ==
    \A k \in QuestionIndices : \A id \in CalledIdsOf(k) :
        Successes(id) >= 1 =>
            /\ id \in OutFiles
            /\ pq[k].pc = "returned" =>
                  /\ Reported(k, id, "success") = 1
                  /\ Reported(k, id, "persistent_failure") = 0

C8_Witness ==
    \E k \in QuestionIndices : \E id \in CalledIdsOf(k) :
        /\ pq[k].pc = "returned"
        /\ pq[k].persistentFailures > 0
        /\ Successes(id) = 1
        /\ Reported(k, id, "success") = 1

(***************************************************************************)
(* C9  Exit status.  In either stage a run whose tally of failed           *)
(* questions reached MAX_TOTAL_FAILURES ends with a non-zero exit status,  *)
(* and a run that ends with every question returned and every task         *)
(* cached or succeeded ends with exit status 0.                            *)
(***************************************************************************)
AllTasksDone ==
    \A k \in QuestionIndices :
        /\ pq[k].pc = "returned"
        /\ \A i \in DOMAIN pq[k].allResults : pq[k].allResults[i].status \in {"cached", "success"}

C9_ExitStatus ==
    /\ Len(main.questionsWithFailures) >= MAX_TOTAL_FAILURES => exitStatus \notin {Running, 0}
    /\ main.pc = "exited" /\ AllTasksDone => exitStatus = 0

C9_Witness ==
    /\ main.pc = "exited"
    /\ AllTasksDone
    /\ exitStatus = 0
    /\ main.totalCompleted > 0

(***************************************************************************)
(* C10  Failures below the threshold.  In both stages a run that           *)
(* dispatched every batch and ended with a persistently failed task does   *)
(* not exit with status 0.                                                 *)
(***************************************************************************)
C10_FailedRunExitsNonZero ==
    /\ main.pc = "exited"
    /\ main.batchStart >= NumQuestions
    /\ main.totalPersistentFailures > 0
    => exitStatus # 0

(***************************************************************************)
(* C11  The two stages agree.  For every question id and corpus index,     *)
(* the identifiers of the tasks getRequiredForecasts returns are exactly   *)
(* the file names the deliberative stage looks up for the participants     *)
(* getGroupComposition returns over the six conditions, and the            *)
(* (model, infoLabel, instance) pairings are the same on both sides.       *)
(***************************************************************************)
Pairing(r) == <<r.model, r.infoLabel, r.instance>>

RequiredIdsOf(questionId, required) ==
    {IndependentForecastId(questionId, required[i].model, required[i].infoLabel,
                           required[i].instance) : i \in DOMAIN required}

Participants(questionId, questionIndex) ==
    UNION {Range(getGroupComposition(CONDITIONS[c], questionId, questionIndex))
             : c \in DOMAIN CONDITIONS}

LookedUpIds(questionId, questionIndex) ==
    {IndependentFilename(questionId, r.model, r.infoLabel, r.instance)
        : r \in Participants(questionId, questionIndex)}

C11_StagesAgree ==
    gen.call.fn = "getRequiredForecasts" =>
        /\ RequiredIdsOf(gen.call.questionId, gen.call.result)
              = LookedUpIds(gen.call.questionId, gen.call.questionIndex)
        /\ {Pairing(r) : r \in Range(gen.call.result)}
              = {Pairing(r) : r \in Participants(gen.call.questionId, gen.call.questionIndex)}

C11_Witness ==
    /\ gen.call.fn = "getRequiredForecasts"
    /\ gen.call.questionId = 107
    /\ gen.call.questionIndex = 1
    /\ IndependentForecastId(107, "sonnet", "info2", 2)
          \in RequiredIdsOf(gen.call.questionId, gen.call.result)
    /\ IndependentFilename(107, "sonnet", "info2", 2)
          \in LookedUpIds(gen.call.questionId, gen.call.questionIndex)

(***************************************************************************)
(* C12  getGroupComposition is deterministic.  A call returns what an      *)
(* earlier call with the same condition, question id and index returned,   *)
(* participants and order, whatever calls were made in between and         *)
(* whether or not the module was loaded again in between.                  *)
(***************************************************************************)
SameArguments(a, b) ==
    /\ a.fn = b.fn
    /\ a.condition = b.condition
    /\ a.questionId = b.questionId
    /\ a.questionIndex = b.questionIndex

C12_Deterministic ==
    (gen.call.fn = "getGroupComposition" /\ SameArguments(gen.prev, gen.call)) =>
        gen.call.result = gen.prev.result

C12_Witness ==
    /\ gen.call.fn = "getGroupComposition"
    /\ SameArguments(gen.prev, gen.call)
    /\ gen.call.condition = "diverse_info"
    /\ gen.call.result # getGroupComposition("diverse_full", gen.call.questionId, 0)
    /\ Len(gen.call.result) = 3

(***************************************************************************)
(* C13  Unknown condition.  getGroupComposition throws for every           *)
(* condition name outside the six of CONDITIONS, and for each of the six   *)
(* it returns a group, whatever the question id and index.                 *)
(***************************************************************************)
C13_UnknownCondition ==
    gen.call.fn = "getGroupComposition" =>
        IF gen.call.condition \in Range(CONDITIONS)
        THEN ~Threw(gen.call.result) /\ Len(gen.call.result) = 3
        ELSE Threw(gen.call.result)

C13_Witness ==
    /\ gen.call.fn = "getGroupComposition"
    /\ gen.call.condition = "sense_check"
    /\ Threw(gen.call.result)
    /\ gen.prev.fn = "getGroupComposition"
    /\ gen.prev.condition = "homo_info"
    /\ ~Threw(gen.prev.result)

(***************************************************************************)
(* C17  No duplicate requirement.  getRequiredForecasts never returns two  *)
(* entries with the same (model, infoLabel, instance), and never two       *)
(* entries with the same task identifier; the no-information forecast of   *)
(* a model, used by sense_check and diverse_none, is required once.        *)
(***************************************************************************)
C17_NoDuplicateRequirement ==
    gen.call.fn = "getRequiredForecasts" =>
        \A i, j \in DOMAIN gen.call.result :
            i # j =>
                /\ Pairing(gen.call.result[i]) # Pairing(gen.call.result[j])
                /\ IndependentForecastId(gen.call.questionId, gen.call.result[i].model,
                                         gen.call.result[i].infoLabel,
                                         gen.call.result[i].instance)
                     # IndependentForecastId(gen.call.questionId, gen.call.result[j].model,
                                             gen.call.result[j].infoLabel,
                                             gen.call.result[j].instance)

C17_Witness ==
    /\ gen.call.fn = "getRequiredForecasts"
    /\ Cardinality({i \in DOMAIN gen.call.result :
                       Pairing(gen.call.result[i]) = <<"pro", "none", NoInstance>>}) = 1
    /\ \E i \in DOMAIN gen.call.result :
          Pairing(gen.call.result[i]) = <<"pro", "none", 1>>


(***************************************************************************)
(* C15  Missing dependency.  In the deliberative stage, for every question *)
(* that has started: skipped is 3 times the number of conditions with an   *)
(* independent result missing; no task of such a condition is pending,     *)
(* reported, sent to the service or written; and the 3 tasks of every      *)
(* condition whose 3 independent results are present are built, each one   *)
(* found cached or sent to the service.                                    *)
(***************************************************************************)
\* the identifiers processQuestion holds: results and tasks still pending
HeldIds(k) ==
    {pq[k].allResults[i].forecastId : i \in DOMAIN pq[k].allResults}
        \cup {pq[k].pending[i].forecastId : i \in DOMAIN pq[k].pending}

ConditionTaskIds(k, c) ==
    {DeliberativeForecastId(questions[k], CONDITIONS[c],
                            groupCompositions[k][c][position].model, position)
        : position \in 1..3}

C15_MissingDependency ==
    stage = "deliberative" =>
        \A k \in QuestionIndices :
            pq[k].pc # "idle" =>
                LET held == HeldIds(k)
                    touched == held \cup DOMAIN calls \cup DOMAIN writes
                IN  /\ pq[k].skipped
                          = 3 * Cardinality({c \in DOMAIN CONDITIONS : ~ConditionPresent(k, c)})
                    /\ \A c \in DOMAIN CONDITIONS :
                          IF ConditionPresent(k, c)
                          THEN /\ ConditionTaskIds(k, c) \subseteq held
                               /\ \A id \in ConditionTaskIds(k, c) :
                                     id \in startFiles \/ id \in DOMAIN calls
                          ELSE \A id \in touched :
                                  ~(id[1] = questions[k] /\ id[2] = CONDITIONS[c])

C15_Witness ==
    /\ stage = "deliberative"
    /\ pq[1].pc = "returned"
    /\ pq[1].skipped = 3
    /\ ~ConditionPresent(1, 4)
    /\ \E id \in DOMAIN calls : id[1] = questions[1] /\ id \in delFiles
    /\ main.totalSkipped = 3

(***************************************************************************)
(* C16  Positions and peers.  For every deliberative task processQuestion  *)
(* holds, at position p of its group: the model and the information label  *)
(* given to the agent are those of the p-th participant of the             *)
(* composition, the own forecast is the p-th participant's independent     *)
(* result, the peers are the independent results of the other two          *)
(* participants in group order, and the three identifiers are distinct.    *)
(***************************************************************************)
ParticipantId(k, c, p) ==
    IndependentForecastId(questions[k], groupCompositions[k][c][p].model,
                          groupCompositions[k][c][p].infoLabel,
                          groupCompositions[k][c][p].instance)

PeersOf(k, c, p) ==
    CASE p = 1 -> <<ParticipantId(k, c, 2), ParticipantId(k, c, 3)>>
      [] p = 2 -> <<ParticipantId(k, c, 1), ParticipantId(k, c, 3)>>
      [] p = 3 -> <<ParticipantId(k, c, 1), ParticipantId(k, c, 2)>>

C16_PositionsAndPeers ==
    stage = "deliberative" =>
        \A k \in QuestionIndices : \A i \in DOMAIN pq[k].pending :
                LET task == pq[k].pending[i]
                    request == AgentRequest(task)
                    c == ConditionIndex(task.condition)
                    p == task.position
                IN  /\ p \in 1..3
                    /\ task.forecastId[4] = ToStr(p)
                    /\ request.model = groupCompositions[k][c][p].model
                    /\ request.infoLabel = groupCompositions[k][c][p].infoLabel
                    /\ request.independentForecast = ParticipantId(k, c, p)
                    /\ request.otherForecasts = PeersOf(k, c, p)
                    /\ Cardinality({request.independentForecast}
                                     \cup Range(request.otherForecasts)) = 3

C16_Witness ==
    /\ stage = "deliberative"
    /\ \E k \in QuestionIndices : \E i \in DOMAIN pq[k].round :
          /\ pq[k].round[i] = "inflight"
          /\ pq[k].pending[i].position = 2
          /\ AgentRequest(pq[k].pending[i]).otherForecasts
                = <<ParticipantId(k, 1, 1), ParticipantId(k, 1, 3)>>
          /\ \E j \in DOMAIN pq[k].pending :
                /\ pq[k].pending[j].condition = "homo_info"
                /\ pq[k].pending[j].position = 3
                /\ AgentRequest(pq[k].pending[j]).independentForecast
                      = IndependentForecastId(questions[k], MODELS[((k - 1) % 3) + 1], "info3", 3)

(***************************************************************************)
(* C18  18 tasks per question.  Every condition of CONDITIONS gives a      *)
(* group of 3 participants; a question that has started holds exactly 18   *)
(* tasks with pairwise distinct identifiers in the independent stage, and  *)
(* in the deliberative stage when its independent results are all          *)
(* present (3 per condition); and a run that ends with every task done     *)
(* leaves 18 files per question in the stage's store.                      *)
(***************************************************************************)
HeldCount(k) ==
    Len(pq[k].allResults) + (IF pq[k].pc = "returned" THEN 0 ELSE Len(pq[k].pending))

AllPresent(k) == \A c \in DOMAIN CONDITIONS : ConditionPresent(k, c)

TerminalStatuses == {"cached", "success", "persistent_failure"}

HaltedByBreaker ==
    /\ exitStatus = 1
    /\ BreakerTrips(main.questionsWithFailures)

C20_BreakerCancelsNothing ==
    HaltedByBreaker =>
        /\ \A k \in QuestionIndices :
              /\ ~Active(k)
              /\ \A i \in DOMAIN pq[k].round : pq[k].round[i] # "inflight"
        /\ \A i \in DOMAIN Batch(main.batchStart) :
              LET k == Batch(main.batchStart)[i]
              IN  /\ pq[k].pc = "returned"
                  /\ Len(pq[k].allResults) = Len(TaskIds(k))
                  /\ \A t \in DOMAIN TaskIds(k) :
                        \E r \in DOMAIN pq[k].allResults :
                            /\ pq[k].allResults[r].forecastId = TaskIds(k)[t]
                            /\ pq[k].allResults[r].status \in TerminalStatuses
        /\ \A k \in QuestionIndices :
              k > main.batchStart + BATCH_SIZE => pq[k].pc = "idle"

C20_Witness ==
    /\ HaltedByBreaker
    /\ main.batchStart = 0
    /\ \E r \in DOMAIN pq[1].allResults :
          /\ pq[1].allResults[r].status = "success"
          /\ Count(failures, pq[1].allResults[r].forecastId) > 0
    /\ pq[1].persistentFailures = 1
    /\ pq[2].persistentFailures = 1

(***************************************************************************)
(* C19  Uniform failure handling.  Whatever the awaited service call       *)
(* throws (timeout, malformed response, rate limit, validation failure;    *)
(* ServiceFails draws from all of them), the step is the same: the task's  *)
(* result has status error; when the                                       *)
(* round is over the task is kept for the next round if rounds remain      *)
(* (retryCount below MAX_RETRIES_PER_QUESTION after the increment) and is  *)
(* reported persistent_failure only when they are exhausted; and the       *)
(* process goes on, or ends through the circuit breaker or the end of      *)
(* main after the question has returned.                                   *)
(***************************************************************************)
FailureHandled(k, i) ==
    LET forecastId == pq[k].pending[i].forecastId
    IN  /\ CASE pq'[k].pc = "awaiting" ->
                   /\ pq'[k].pending = pq[k].pending
                   /\ pq'[k].round[i] = "error"
                   /\ pq'[k].retryCount = pq[k].retryCount
              [] pq'[k].pc = "sleeping" ->
                   /\ pq'[k].retryCount = pq[k].retryCount + 1
                   /\ pq'[k].retryCount < MAX_RETRIES_PER_QUESTION
                   /\ \E j \in DOMAIN pq'[k].pending :
                         pq'[k].pending[j].forecastId = forecastId
                   /\ \A j \in DOMAIN pq'[k].allResults :
                         pq'[k].allResults[j].forecastId # forecastId
              [] pq'[k].pc = "returned" ->
                   /\ pq[k].retryCount + 1 = MAX_RETRIES_PER_QUESTION
                   /\ \E j \in DOMAIN pq'[k].allResults :
                         pq'[k].allResults[j] = Result("persistent_failure", forecastId)
              [] OTHER -> FALSE
        /\ exitStatus' # Running =>
              /\ pq'[k].pc = "returned"
              /\ main'.pc = "exited"
              /\ \/ /\ BreakerTrips(main'.questionsWithFailures)
                    /\ exitStatus' = 1
                 \/ main'.batchStart >= NumQuestions

C19_UniformFailureHandling ==
    [][\A k \in QuestionIndices : \A i \in DOMAIN pq[k].round :
          pq[k].round[i] = "inflight" =>
              (ServiceFails(k, i) => FailureHandled(k, i))]_vars

C19_Witness ==
    \E k \in QuestionIndices : \E i \in DOMAIN pq[k].round :
        /\ pq[k].round[i] = "inflight"
        /\ pq[k].retryCount = 1
        /\ Count(failures, pq[k].pending[i].forecastId) = 1
        /\ Count(calls, pq[k].pending[i].forecastId) = 2
        /\ \E j \in DOMAIN pq[k].allResults :
              /\ pq[k].allResults[j].status = "success"
              /\ pq[k].allResults[j].forecastId \in DOMAIN calls

(***************************************************************************)
(* C14  A configuration error is fatal.  A task for which the agent        *)
(* throws a configuration error (a required parameter is missing) is not   *)
(* kept for a retry round, is not reported persistent_failure, and does    *)
(* not bring its question into the circuit breaker's tally.                *)
(***************************************************************************)
\* the identifier of an independent task without model or information label
ConfigurationErrorId(forecastId) == Missing(forecastId[2]) \/ Missing(forecastId[3])

C14_ConfigurationErrorFatal ==
    \A k \in QuestionIndices :
        /\ \A i \in DOMAIN pq[k].pending :
              AgentThrows(pq[k].pending[i]) => pq[k].retryCount = 0
        /\ \A i \in DOMAIN pq[k].allResults :
              ConfigurationErrorId(pq[k].allResults[i].forecastId) =>
                  pq[k].allResults[i].status # "persistent_failure"
        /\ questions[k] \in Range(main.questionsWithFailures) =>
              \E i \in DOMAIN pq[k].allResults :
                  /\ pq[k].allResults[i].status = "persistent_failure"
                  /\ ~ConfigurationErrorId(pq[k].allResults[i].forecastId)

(***************************************************************************)
(* C27  Terminal outcomes.  In either stage, when processQuestion has      *)
(* returned, its results hold exactly one entry for every task of the      *)
(* question and nothing else, every entry has one of the statuses cached,  *)
(* success and persistent_failure, and persistentFailures is the number of *)
(* entries with status persistent_failure.                                 *)
(***************************************************************************)
TerminalOutcomes == {"cached", "success", "persistent_failure"}

EntriesOf(k, forecastId) ==
    Cardinality({j \in DOMAIN pq[k].allResults : pq[k].allResults[j].forecastId = forecastId})

C27_OneTerminalOutcome ==
    \A k \in QuestionIndices :
        pq[k].pc = "returned" =>
            LET ids == TaskIds(k)
            IN  /\ Len(pq[k].allResults) = Len(ids)
                /\ \A i \in DOMAIN ids : EntriesOf(k, ids[i]) = 1
                /\ \A j \in DOMAIN pq[k].allResults :
                      pq[k].allResults[j].status \in TerminalOutcomes
                /\ pq[k].persistentFailures
                      = CountStatus(pq[k].allResults, "persistent_failure")

\* a question has returned with all three outcomes among its results
C27_Witness ==
    \E k \in QuestionIndices :
        /\ pq[k].pc = "returned"
        /\ \A status \in TerminalOutcomes : CountStatus(pq[k].allResults, status) > 0
        /\ pq[k].persistentFailures = 1

(***************************************************************************)
(* C30  Retry set.  In either stage, within one run: while the r-th round  *)
(* of a question is awaited (r = retryCount + 1), every task of the round  *)
(* was sent to the service r-1 times before and failed each time; the      *)
(* tasks kept for the next round are exactly the tasks of the question     *)
(* that failed in the round before; and a task with a cached or success    *)
(* result is not among the pending tasks again.                            *)
(***************************************************************************)
\* 1 when the call of pending[i] in the current round was made / has failed
CalledNow(k, i) == IF pq[k].round[i] \in {"inflight", "success", "error"} THEN 1 ELSE 0

FailedNow(k, i) == IF pq[k].round[i] = "error" THEN 1 ELSE 0

C30_RetryExactlyFailed ==
    \A k \in QuestionIndices :
        /\ pq[k].pc = "awaiting" =>
              \A i \in DOMAIN pq[k].pending :
                  /\ Count(calls, pq[k].pending[i].forecastId) - CalledNow(k, i)
                        = pq[k].retryCount
                  /\ Count(failures, pq[k].pending[i].forecastId) - FailedNow(k, i)
                        = pq[k].retryCount
        /\ pq[k].pc = "sleeping" =>
              Ids(pq[k].pending) =
                  {id \in Range(TaskIds(k)) : Count(failures, id) = pq[k].retryCount}
        /\ \A i \in DOMAIN pq[k].pending : \A j \in DOMAIN pq[k].allResults :
              pq[k].allResults[j].status \in {"cached", "success"} =>
                  pq[k].allResults[j].forecastId # pq[k].pending[i].forecastId
        /\ \A id \in DOMAIN calls : calls[id] - Count(failures, id) <= 1

\* the third round of a question is awaited with one task, while another
\* task of the question succeeded in an earlier round after a failure
C30_Witness ==
    \E k \in QuestionIndices :
        /\ pq[k].pc = "awaiting"
        /\ pq[k].retryCount = 2
        /\ Len(pq[k].pending) = 1
        /\ pq[k].round[1] = "inflight"
        /\ \E j \in DOMAIN pq[k].allResults :
              /\ pq[k].allResults[j].status = "success"
              /\ Count(failures, pq[k].allResults[j].forecastId) = 1

(***************************************************************************)
(* C29  The tally counts questions.  In either stage questionsWithFailures *)
(* holds a question at most once; a question in it has at least one        *)
(* persistently failed task; every question of a batch that was tallied    *)
(* to its end is in it exactly when it has a persistently failed task,     *)
(* however many; and its length never exceeds MAX_TOTAL_FAILURES.          *)
(***************************************************************************)
Tallied(k) ==
    Len(SelectSeq(main.questionsWithFailures, LAMBDA questionId : questionId = questions[k]))

C29_TallyCountsQuestions ==
    /\ Len(main.questionsWithFailures) <= MAX_TOTAL_FAILURES
    /\ \A k \in QuestionIndices :
          /\ Tallied(k) <= 1
          /\ Tallied(k) = 1 => pq[k].pc = "returned" /\ pq[k].persistentFailures >= 1
          /\ (exitStatus = Running /\ BatchStartOf(k) < main.batchStart) =>
                (Tallied(k) = 1 <=> pq[k].persistentFailures >= 1)

\* a question with two persistently failed tasks is in the tally once
C29_Witness ==
    \E k \in QuestionIndices :
        /\ pq[k].persistentFailures = 2
        /\ Tallied(k) = 1
        /\ Len(main.questionsWithFailures) = 1

(***************************************************************************)
(* C28  Fixed backoff.  In either stage, for every question: each delay    *)
(* lasts RETRY_DELAY_MS, whatever the round; while round r is awaited r-1  *)
(* delays have been slept, one between any two consecutive rounds and none *)
(* before the first; a delay in progress follows the r rounds dispatched   *)
(* so far; and when processQuestion has returned after r rounds it has     *)
(* slept r-1 delays, none after the last round.                            *)
(***************************************************************************)
C28_FixedBackoff ==
    \A k \in QuestionIndices :
        /\ \A i \in DOMAIN pq[k].delays : pq[k].delays[i] = RETRY_DELAY_MS
        /\ pq[k].rounds <= MAX_RETRIES_PER_QUESTION
        /\ pq[k].pc = "idle" => pq[k].rounds = 0 /\ pq[k].delays = <<>>
        /\ pq[k].pc = "awaiting" =>
              pq[k].rounds = pq[k].retryCount + 1 /\ Len(pq[k].delays) = pq[k].rounds - 1
        /\ pq[k].pc = "sleeping" =>
              pq[k].rounds = pq[k].retryCount /\ Len(pq[k].delays) = pq[k].rounds
        /\ pq[k].pc = "returned" =>
              Len(pq[k].delays) = IF pq[k].rounds = 0 THEN 0 ELSE pq[k].rounds - 1

\* a question has returned after its third round and two delays
C28_Witness ==
    \E k \in QuestionIndices :
        /\ pq[k].pc = "returned"
        /\ pq[k].rounds = MAX_RETRIES_PER_QUESTION
        /\ pq[k].delays = <<RETRY_DELAY_MS, RETRY_DELAY_MS>>

(***************************************************************************)
(* C26  Homogeneous model.  In either stage, when the tasks of the         *)
(* question at corpus position k (0-based k-1) are dispatched, every task  *)
(* of a homogeneous condition has the model MODELS[(k-1) mod 3], in        *)
(* whatever batch and at whatever place of the batch the question is; so   *)
(* the homogeneous conditions of a question share one model, and 3         *)
(* consecutive corpus positions use each of the 3 models once.             *)
(***************************************************************************)
\* independent: the tasks with an instance number; deliberative: the tasks
\* of homo_full, homo_none and homo_info
Homogeneous(forecastId) ==
    IF stage = "independent" THEN Len(forecastId) = 4
    ELSE forecastId[2] \in {"homo_full", "homo_none", "homo_info"}

ModelOf(forecastId) == IF stage = "independent" THEN forecastId[2] ELSE forecastId[3]

\* processQuestion holds a homogeneous task of question k with this model
UsesModel(k, model) ==
    \/ \E i \in DOMAIN pq[k].pending :
          /\ Homogeneous(pq[k].pending[i].forecastId)
          /\ ModelOf(pq[k].pending[i].forecastId) = model
    \/ \E j \in DOMAIN pq[k].allResults :
          /\ Homogeneous(pq[k].allResults[j].forecastId)
          /\ ModelOf(pq[k].allResults[j].forecastId) = model

HasHomogeneous(k) == \E model \in Range(MODELS) : UsesModel(k, model)

\* the first round of question k is awaited: pending holds all its tasks
FirstRound(k) == pq[k].pc = "awaiting" /\ pq[k].retryCount = 0

C26_HomogeneousModel ==
    /\ \A k \in QuestionIndices :
          FirstRound(k) =>
              \A i \in DOMAIN pq[k].pending :
                  Homogeneous(pq[k].pending[i].forecastId) =>
                      ModelOf(pq[k].pending[i].forecastId) = MODELS[((k - 1) % 3) + 1]
    /\ \A k \in 1..(NumQuestions - 2) :
          (FirstRound(k + 2) /\ \A j \in k..(k + 2) : HasHomogeneous(j)) =>
              \A model \in Range(MODELS) :
                  Cardinality({j \in k..(k + 2) : UsesModel(j, model)}) = 1

\* three consecutive questions, the third one the first of its batch, with
\* their homogeneous tasks, in the deliberative stage
C26_Witness ==
    /\ stage = "deliberative"
    /\ \E k \in 1..(NumQuestions - 2) :
          /\ FirstRound(k + 2)
          /\ \A j \in k..(k + 2) : HasHomogeneous(j)
          /\ \E j \in k..(k + 2) : j > 1 /\ BatchStartOf(j) = j - 1
          /\ \A condition \in {"homo_full", "homo_none", "homo_info"} :
                \E i \in DOMAIN pq[k].allResults :
                    pq[k].allResults[i].forecastId[2] = condition

(***************************************************************************)
(* C25  Supporting text.  For every information label of full, none,       *)
(* info1, info2, info3 and every question with 3 fragments, the text the   *)
(* independent stage computes and the text the deliberative stage computes *)
(* are the same: for full the 3 fragments in order (joined by a blank      *)
(* line), for none the fixed placeholder, for info n the n-th fragment     *)
(* alone.                                                                  *)
(***************************************************************************)
Fragments(text) == SelectSeq(text, LAMBDA piece : piece \in FragmentTexts)

LabelNumber(infoLabel) ==
    CASE infoLabel = "info1" -> 1 [] infoLabel = "info2" -> 2 [] infoLabel = "info3" -> 3
      [] OTHER -> 0

IsSupportingText(text, informationPackages, infoLabel) ==
    CASE infoLabel = "full" ->
            Fragments(text) = informationPackages /\ Len(text) = 5
      [] infoLabel = "none" ->
            /\ Len(text) = 1
            /\ text[1] \notin FragmentTexts
            /\ text = getInformation(<<"fragment a", "fragment a", "fragment a">>, "none")
      [] OTHER -> text = <<informationPackages[LabelNumber(infoLabel)]>>

C25_SameInformation ==
    /\ information.independent # NotComputed =>
          IsSupportingText(information.independent,
                           information.informationPackages, information.infoLabel)
    /\ information.deliberative # NotComputed =>
          IsSupportingText(information.deliberative,
                           information.informationPackages, information.infoLabel)
    /\ (information.independent # NotComputed /\ information.deliberative # NotComputed) =>
          information.independent = information.deliberative

\* both stages have computed the text of an info2 task of a question with
\* three different fragments
C25_Witness ==
    /\ information.infoLabel = "info2"
    /\ Cardinality(Range(information.informationPackages)) = 3
    /\ information.independent = <<information.informationPackages[2]>>
    /\ information.deliberative = <<information.informationPackages[2]>>

(***************************************************************************)
(* Observations of buildDataset.                                           *)
(***************************************************************************)
Built == analysis.pc = "built"

\* the question of a stored result, if it is in questions.json
InCorpus(f) == \E k \in DOMAIN analysis.questions : analysis.questions[k].id = f.questionId

\* the resolution questions.json gives for a question id: that of the last
\* entry with the id
Answers(id) ==
    {analysis.questions[k].resolution : k \in
        {k \in DOMAIN analysis.questions :
            /\ analysis.questions[k].id = id
            /\ \A j \in DOMAIN analysis.questions : analysis.questions[j].id = id => j <= k}}

\* 1 when the question of the result resolved yes, else 0
GroundTruth(f) == IF "yes" \in Answers(f.questionId) THEN 1 ELSE 0

Stored(store) == {store[i] : i \in DOMAIN store}

\* the referenced independent result of a deliberative result, as a set
Referenced(df) ==
    {f \in Stored(analysis.independentForecasts) : f.forecastId = df.independentForecastId}

ForecastRowsOf(f) ==
    {i \in DOMAIN analysis.dataset.forecastRows :
        analysis.dataset.forecastRows[i].forecast_id = f.forecastId}

PairRowsOf(df) ==
    {i \in DOMAIN analysis.dataset.conditionRows :
        analysis.dataset.conditionRows[i].deliberative_forecast_id = df.forecastId}

(***************************************************************************)
(* C21  Missing joins.  In buildDataset a deliberative result of a         *)
(* question of the corpus whose referenced independent result is not in    *)
(* the independent store has no condition-pair row and has its forecast    *)
(* row.                                                                    *)
(***************************************************************************)
C21_MissingJoin ==
    Built =>
        \A df \in Stored(analysis.deliberativeForecasts) :
            (InCorpus(df) /\ Referenced(df) = {}) =>
                /\ PairRowsOf(df) = {}
                /\ Cardinality(ForecastRowsOf(df)) = 1
                /\ \A i \in ForecastRowsOf(df) :
                      analysis.dataset.forecastRows[i].stage = "deliberative"

\* the dataset is built from stores where one deliberative result of a
\* question lacks its independent result and another one has it
C21_Witness ==
    /\ Built
    /\ \E df, other \in Stored(analysis.deliberativeForecasts) :
          /\ InCorpus(df) /\ Referenced(df) = {}
          /\ df.questionId = other.questionId
          /\ PairRowsOf(other) # {}
          /\ ForecastRowsOf(df) # {}

(***************************************************************************)
(* C22  Condition pairs.  In buildDataset every deliberative result of a   *)
(* question of the corpus whose referenced independent result is in the    *)
(* store has exactly one condition-pair row; the row has the probability   *)
(* of the referenced independent result as independent_prob, the           *)
(* probability of the deliberative result as deliberative_prob and         *)
(* resolution 1 exactly when the question resolved yes; and no two rows    *)
(* have the same question, condition and position.                         *)
(***************************************************************************)
C22_ConditionPairs ==
    Built =>
        /\ \A df \in Stored(analysis.deliberativeForecasts) :
              (InCorpus(df) /\ Referenced(df) # {}) =>
                  /\ Cardinality(PairRowsOf(df)) = 1
                  /\ \A i \in PairRowsOf(df) : \A indF \in Referenced(df) :
                        LET row == analysis.dataset.conditionRows[i]
                        IN  /\ row.independent_prob = indF.forecast.probability
                            /\ row.deliberative_prob = df.forecast.probability
                            /\ row.resolution = GroundTruth(df)
                            /\ row.question_id = df.questionId
                            /\ row.condition = df.condition
                            /\ row.position = df.position
                            /\ row.independent_forecast_id = indF.forecastId
        /\ \A i, j \in DOMAIN analysis.dataset.conditionRows :
              LET a == analysis.dataset.conditionRows[i]
                  b == analysis.dataset.conditionRows[j]
              IN  (/\ a.question_id = b.question_id
                   /\ a.condition = b.condition
                   /\ a.position = b.position) => i = j

\* a row with independent_prob 70, deliberative_prob 65, resolution 1, next
\* to a row of another position of the same question and condition
C22_Witness ==
    /\ Built
    /\ \E i, j \in DOMAIN analysis.dataset.conditionRows :
          /\ analysis.dataset.conditionRows[i].independent_prob = 70
          /\ analysis.dataset.conditionRows[i].deliberative_prob = 65
          /\ analysis.dataset.conditionRows[i].resolution = 1
          /\ analysis.dataset.conditionRows[j].position
                # analysis.dataset.conditionRows[i].position
          /\ analysis.dataset.conditionRows[j].condition
                = analysis.dataset.conditionRows[i].condition

(***************************************************************************)
(* C23  Forecast rows.  In buildDataset the forecast rows are exactly one  *)
(* row per independent result and one per deliberative result of a         *)
(* question of the corpus; an independent row has stage independent and    *)
(* empty condition and position, a deliberative row has stage deliberative *)
(* and the result's condition and position; every row has the result's     *)
(* probability, model and information label and the resolution of its      *)
(* question.                                                               *)
(***************************************************************************)
RowOfResult(row, f, stageName) ==
    /\ row.stage = stageName
    /\ row.question_id = f.questionId
    /\ row.probability = f.forecast.probability
    /\ row.resolution = GroundTruth(f)
    /\ row.model = f.model
    /\ row.info_label = f.infoLabel
    /\ IF stageName = "independent"
       THEN row.condition = "" /\ row.position = ""
       ELSE row.condition = f.condition /\ row.position = f.position

RECURSIVE ReadCSV(_, _, _, _, _)
ReadCSV(text, mode, chars, record, records) ==
    IF text = <<>>
    THEN records \o <<Append(record, chars)>>
    ELSE LET c == Head(text)
             rest == Tail(text)
         IN  IF mode = "quoted"
             THEN IF c = Quote THEN ReadCSV(rest, "closing", chars, record, records)
                  ELSE ReadCSV(rest, "quoted", Append(chars, c), record, records)
             ELSE IF mode = "closing" /\ c = Quote
             THEN ReadCSV(rest, "quoted", Append(chars, Quote), record, records)
             ELSE IF mode = "start" /\ c = Quote
             THEN ReadCSV(rest, "quoted", chars, record, records)
             ELSE IF c = Comma
             THEN ReadCSV(rest, "start", <<>>, Append(record, chars), records)
             ELSE IF c = CR /\ rest # <<>> /\ Head(rest) = LF
             THEN ReadCSV(Tail(rest), "start", <<>>, <<>>,
                          records \o <<Append(record, chars)>>)
             ELSE IF c = LF \/ c = CR
             THEN ReadCSV(rest, "start", <<>>, <<>>, records \o <<Append(record, chars)>>)
             ELSE ReadCSV(rest, "plain", Append(chars, c), record, records)

ParseCSV(text) == IF text = <<>> THEN <<>> ELSE ReadCSV(text, "start", <<>>, <<>>, <<>>)

\* a string value with the delimiter, the quote character or a line break
NeedsEscaping(value) ==
    /\ value.type = "string"
    /\ \E i \in DOMAIN value.v : value.v[i] \in {Comma, Quote, LF, CR}

(***************************************************************************)
(* C24  Escaping.  When toCSV has written rows, every string value that    *)
(* contains a comma, a quote character or a line break is read back from   *)
(* the text, by the standard rules, as the original string, in the record  *)
(* of its row and the field of its column; and the first record is the     *)
(* header, the fields of every line in the order of the header.            *)
(***************************************************************************)
C24_EscapedRoundTrip ==
    analysis.pc = "written" =>
        LET parsed == ParseCSV(analysis.csv)
            headers == ObjectKeys(analysis.rows[1])
        IN  /\ parsed # <<>> /\ parsed[1] = headers
            /\ \A r \in DOMAIN analysis.rows : \A c \in DOMAIN headers :
                  NeedsEscaping(Get(analysis.rows[r], headers[c])) =>
                      /\ Len(parsed) = Len(analysis.rows) + 1
                      /\ Len(parsed[r + 1]) = Len(headers)
                      /\ parsed[r + 1][c] = Get(analysis.rows[r], headers[c]).v

(***************************************************************************)
(* C31  Success in the last round.  In either stage, when processQuestion  *)
(* has returned: a task that failed in its first                           *)
(* MAX_RETRIES_PER_QUESTION - 1 rounds and was dispatched once more, with  *)
(* success, is reported success (once) and not persistent_failure, and its *)
(* artifact is in the store; the question has a persistent failure exactly *)
(* when one of its tasks failed in MAX_RETRIES_PER_QUESTION rounds; and a  *)
(* question is in the circuit-breaker tally only if one of its tasks       *)
(* failed that often.                                                      *)
(***************************************************************************)
FailedInEveryRound(k) ==
    \E id \in CalledIdsOf(k) : Count(failures, id) = MAX_RETRIES_PER_QUESTION

SucceededInLastRound(id) ==
    /\ Count(calls, id) = MAX_RETRIES_PER_QUESTION
    /\ Count(failures, id) = MAX_RETRIES_PER_QUESTION - 1

C31_LastRoundSuccess ==
    \A k \in QuestionIndices :
        /\ pq[k].pc = "returned" =>
              /\ \A id \in CalledIdsOf(k) :
                    SucceededInLastRound(id) =>
                        /\ Reported(k, id, "success") = 1
                        /\ Reported(k, id, "persistent_failure") = 0
                        /\ id \in OutFiles
              /\ pq[k].persistentFailures > 0 <=> FailedInEveryRound(k)
        /\ Tallied(k) > 0 => FailedInEveryRound(k)

\* the only task of a question that failed at all succeeded in the last
\* round, and the batch of the question has been tallied
C31_Witness ==
    \E k \in QuestionIndices : \E id \in CalledIdsOf(k) :
        /\ pq[k].pc = "returned"
        /\ SucceededInLastRound(id)
        /\ pq[k].rounds = MAX_RETRIES_PER_QUESTION
        /\ pq[k].persistentFailures = 0
        /\ BatchStartOf(k) < main.batchStart
        /\ Tallied(k) = 0

(***************************************************************************)
(* C32  Termination.  In either stage, when every Forecasting Service call *)
(* returns or fails and every timer fires, a run that has started          *)
(* eventually ends; and a run that has ended otherwise than by a kill has  *)
(* either completed (main has gone through every batch and every question  *)
(* has returned) or was halted by the circuit breaker (exit status 1 with  *)
(* MAX_TOTAL_FAILURES questions in the tally).                             *)
(***************************************************************************)
Completed ==
    /\ exitStatus \in {0, 1}
    /\ main.pc = "exited"
    /\ main.batchStart >= NumQuestions
    /\ \A k \in QuestionIndices : pq[k].pc = "returned"

HaltedByCircuitBreaker ==
    /\ exitStatus = 1
    /\ main.pc = "exited"
    /\ BreakerTrips(main.questionsWithFailures)
    /\ \A k \in QuestionIndices : pq[k].pc \in {"idle", "returned"}

C32_Terminates ==
    /\ (exitStatus = Running) ~> (exitStatus # Running)
    /\ [](exitStatus \notin {Running, Interrupted} => Completed \/ HaltedByCircuitBreaker)

\* a run has completed after a question went through every retry round
C32_Witness ==
    /\ Completed
    /\ ~HaltedByCircuitBreaker
    /\ \E k \in QuestionIndices :
          pq[k].rounds = MAX_RETRIES_PER_QUESTION /\ pq[k].persistentFailures = 1

(***************************************************************************)
(* C33  Skipped tasks are only counted.  In the deliberative stage: the    *)
(* persistentFailures of a returned question is the number of its tasks    *)
(* that failed in MAX_RETRIES_PER_QUESTION service calls, whatever it      *)
(* skipped; a question whose six conditions are all skipped has returned   *)
(* with no results, no persistent failure and no service call, and is not  *)
(* in the circuit-breaker tally; and until the breaker trips the totals of *)
(* main are the sums, over the questions of the batches tallied, of        *)
(* skipped and of persistentFailures, each on its own.                     *)
(***************************************************************************)
AllSkipped == 3 * Len(CONDITIONS)

RECURSIVE SumTallied(_, _)
SumTallied(counter, k) ==
    IF k = 0 THEN 0
    ELSE (IF BatchStartOf(k) < main.batchStart THEN pq[k][counter] ELSE 0)
         + SumTallied(counter, k - 1)

C33_SkippedOnlyCounted ==
    stage = "deliberative" =>
        /\ \A k \in QuestionIndices :
              /\ pq[k].pc = "returned" =>
                    /\ pq[k].persistentFailures =
                          Cardinality({id \in CalledIdsOf(k) :
                                          Count(failures, id) = MAX_RETRIES_PER_QUESTION})
                    /\ pq[k].persistentFailures + pq[k].skipped <= AllSkipped
              /\ pq[k].skipped = AllSkipped =>
                    /\ pq[k].pc = "returned"
                    /\ pq[k].allResults = <<>>
                    /\ pq[k].persistentFailures = 0
                    /\ pq[k].rounds = 0
                    /\ CalledIdsOf(k) = {}
                    /\ Tallied(k) = 0
        /\ ~BreakerTrips(main.questionsWithFailures) =>
              /\ main.totalSkipped = SumTallied("skipped", NumQuestions)
              /\ main.totalPersistentFailures = SumTallied("persistentFailures", NumQuestions)

\* the first question skipped all its conditions, the second one has a
\* persistent failure, and their batch has been tallied
C33_Witness ==
    /\ stage = "deliberative"
    /\ main.batchStart >= 2
    /\ pq[1].skipped = AllSkipped
    /\ pq[2].persistentFailures = 1
    /\ main.totalSkipped = AllSkipped
    /\ main.totalPersistentFailures = 1
    /\ main.questionsWithFailures = <<questions[2]>>

(***************************************************************************)
(* C34  seededShuffle permutes.  Whatever values of [0,1) seededRandom     *)
(* returns, the array seededShuffle returns has the length of its input    *)
(* and holds every element as often as the input does, and the input       *)
(* array is after the call what it was before; and the group               *)
(* getGroupComposition returns for diverse_info has 3 participants, with   *)
(* each model of MODELS at exactly one position and each of info1, info2,  *)
(* info3 at exactly one position.                                          *)
(***************************************************************************)
Occurrences(array, x) == Cardinality({i \in DOMAIN array : array[i] = x})

IsPermutationOf(result, array) ==
    /\ Len(result) = Len(array)
    /\ \A x \in Range(array) \cup Range(result) :
          Occurrences(result, x) = Occurrences(array, x)

C34_ShufflePermutes ==
    /\ gen.call.fn = "seededShuffle" =>
          /\ IsPermutationOf(gen.call.result, gen.call.array)
          /\ gen.call.after = gen.call.array
    /\ gen.call.fn = "getGroupComposition" =>
          /\ Len(gen.call.result) = 3
          /\ \A model \in Range(MODELS) :
                Cardinality({i \in DOMAIN gen.call.result :
                                gen.call.result[i].model = model}) = 1
          /\ \A infoLabel \in {"info1", "info2", "info3"} :
                Cardinality({i \in DOMAIN gen.call.result :
                                gen.call.result[i].infoLabel = infoLabel}) = 1

\* a shuffle of MODELS that moved every element
C34_Witness ==
    /\ gen.call.fn = "seededShuffle"
    /\ gen.call.array = MODELS
    /\ gen.call.result = <<"sonnet", "gpt5", "pro">>
    /\ gen.call.random \notin {RandomOf(<<1, 2, 3>>, seed) : seed \in Seeds}

(***************************************************************************)
(* C35  Identifiers in the files.  Every file of either store holds a      *)
(* forecastId field equal to the key it is stored under; and in every      *)
(* file of the deliberative store independentForecastId and each of the    *)
(* two otherForecastIds is the forecastId field of a file of the           *)
(* independent store, which the deliberative stage leaves as it was when   *)
(* the task was built.                                                     *)
(***************************************************************************)
IndependentIdFields ==
    {contents.independent[key].forecastId : key \in DOMAIN contents.independent}

C35_IdentifiersInFiles ==
    /\ \A key \in DOMAIN contents.independent :
          contents.independent[key].forecastId = key
    /\ \A key \in DOMAIN contents.deliberative :
          LET result == contents.deliberative[key]
          IN  /\ result.forecastId = key
              /\ result.independentForecastId \in IndependentIdFields
              /\ Len(result.otherForecastIds) = 2
              /\ \A n \in DOMAIN result.otherForecastIds :
                    result.otherForecastIds[n] \in IndependentIdFields

\* the file of the second participant of a homo_info group, whose
\* independent results carry an instance suffix
C35_Witness ==
    \E key \in DOMAIN contents.deliberative :
        LET result == contents.deliberative[key]
        IN  /\ result.condition = "homo_info"
            /\ result.position = 2
            /\ result.independentForecastId = <<key[1], result.model, "info2", "2">>
            /\ result.otherForecastIds[2] = <<key[1], result.model, "info3", "3">>

(***************************************************************************)
(* C36  Question rows.  In buildDataset the question rows are exactly one  *)
(* row per distinct question id of questions.json; the row's resolution is *)
(* 1 exactly when the question's resolution is 'yes' and 0 for every other *)
(* value; and a row of the forecast rows or of the condition-pair rows     *)
(* carries the resolution of the question row of its question, so a        *)
(* question that has not resolved has 0, as one that resolved no, in all   *)
(* three tables.                                                           *)
(***************************************************************************)
CorpusIds == {analysis.questions[k].id : k \in DOMAIN analysis.questions}

QuestionRowsOf(id) ==
    {n \in DOMAIN analysis.dataset.questionRows :
        analysis.dataset.questionRows[n].question_id = id}

\* the resolutions the rows of a table carry for a question
ResolutionsIn(table, id) ==
    {table[i].resolution : i \in {i \in DOMAIN table : table[i].question_id = id}}

C36_QuestionRows ==
    Built =>
        /\ Len(analysis.dataset.questionRows) = Cardinality(CorpusIds)
        /\ \A id \in CorpusIds :
              /\ Cardinality(QuestionRowsOf(id)) = 1
              /\ \A n \in QuestionRowsOf(id) :
                    LET row == analysis.dataset.questionRows[n]
                    IN  /\ row.resolution \in {0, 1}
                        /\ row.resolution = 1 <=> Answers(id) = {"yes"}
                        /\ ResolutionsIn(analysis.dataset.forecastRows, id)
                              \subseteq {row.resolution}
                        /\ ResolutionsIn(analysis.dataset.conditionRows, id)
                              \subseteq {row.resolution}

\* a question that has not resolved and one that resolved no, each with
\* rows in all three tables and 0 in every one of them, while a question is
\* listed twice in questions.json
C36_Witness ==
    /\ Built
    /\ Len(analysis.questions) > Cardinality(CorpusIds)
    /\ \E open, no \in CorpusIds :
          /\ Answers(open) = {"unresolved"}
          /\ Answers(no) = {"no"}
          /\ \A id \in {open, no} :
                /\ ResolutionsIn(analysis.dataset.questionRows, id) = {0}
                /\ ResolutionsIn(analysis.dataset.forecastRows, id) = {0}
                /\ ResolutionsIn(analysis.dataset.conditionRows, id) = {0}

(***************************************************************************)
(* C37  Rate limits.  In getCommentsByAuthorId, as in                      *)
(* getPostsByTournamentId, an HTTP 429 response makes the loop wait, with  *)
(* the offset and the results collected so far unchanged and without the   *)
(* function being left by an exception, and after the wait the same page   *)
(* is fetched again.                                                       *)
(***************************************************************************)
\* the step in which the awaited fetch resolves with HTTP 429
RateLimitResponse == fetch.pc = "fetching" /\ fetch'.pc # "fetching" /\ fetch'.status = 429

\* the step in which the wait after a 429 response ends
RateLimitWaitEnds == fetch.pc = "waiting" /\ fetch'.pc # "waiting"

C37_RateLimitRetry ==
    /\ [][RateLimitResponse =>
            /\ fetch'.pc = "waiting"
            /\ fetch'.offset = fetch.offset
            /\ fetch'.results = fetch.results]_vars
    /\ [][RateLimitWaitEnds =>
            /\ fetch'.pc = "fetching"
            /\ fetch'.offset = fetch.offset
            /\ fetch'.results = fetch.results]_vars

====
